---- MODULE Spec2Model ----
(***************************************************************************)
(* Model of the multi-agent pipeline of sillytavern-multi-agent:           *)
(*   Parser -> Narrator -> Director -> Persona(s) -> Evaluate -> Composer  *)
(* with the retry edge Evaluate -> Persona, over the LangGraph state of    *)
(* state.ts and its per-field reducers.                                    *)
(*                                                                         *)
(* Text is modelled as a sequence of tokens.  A token is a record          *)
(* [kind, v]: kind "text" is a run of ordinary characters (v = " " is      *)
(* white space), "open" is <v>, "close" is </v>, "str" is the JSON string  *)
(* literal "v", and "punct" is one of the JSON characters [ ] , .          *)
(***************************************************************************)
EXTENDS Integers, Sequences, FiniteSets, TLC

VARIABLES
    state,              \* the GraphState aggregate (state.ts)
    node,               \* the node LangGraph runs next ("idle" before run, "END" after)
    update,             \* the partial update returned by the last node that ran
    trace,              \* the nodes that have completed, in order
    narratorModel,      \* narrator.ts: module-level model, TRUE when configured
    directorModel,      \* director.ts: module-level model, TRUE when configured
    personaModelConfig, \* persona.ts: module-level config, TRUE when configured
    composerModel,      \* composer.ts: module-level model, TRUE when configured
    outputPromises,     \* persona.ts: the per-character promises of one fan-out
    settleOrder,        \* the indices of outputPromises in the order they settled
    reply,              \* the reply of the model call the last node awaited
    entry,              \* graph.ts: the entry point of the run, runGraph or streamGraph
    events,             \* the { node, state } events streamGraph has yielded
    result,             \* what the entry point returned or threw, Null before
    promptConfig,       \* config/manager.ts: the prompt configuration of each agent
    rendered,           \* the last direct call of renderPrompt: arguments and text
    selectedAgent,      \* configurator: state.selectedAgent
    isDirty,            \* configurator: state.isDirty
    modifiedAgents,     \* configurator: the set modifiedAgents
    pendingChanges,     \* configurator: the Map pendingChanges, in insertion order
    handler,            \* configurator: the async handler that is awaiting, Null if none
    exported            \* the JSON text the last exportConfig returned and whether
                        \* it has been imported since, Null before

\* the variables of configurator/index.ts and of the export
configuratorVars ==
    << selectedAgent, isDirty, modifiedAgents, pendingChanges, handler, exported >>

vars == << state, node, update, trace, narratorModel, directorModel,
          personaModelConfig, composerModel, outputPromises, settleOrder, reply,
          entry, events, result,
                    promptConfig, rendered, configuratorVars >>

-----------------------------------------------------------------------------
(* Tokens and text *)

T(s) == [kind |-> "text", v |-> s]
Open(n) == [kind |-> "open", v |-> n]
Close(n) == [kind |-> "close", v |-> n]
Str(s) == [kind |-> "str", v |-> s]
Punct(s) == [kind |-> "punct", v |-> s]

Null == [isNull |-> TRUE]

\* configurator/index.ts 39-53: the state of the module when it is loaded
ConfiguratorInit ==
    /\ selectedAgent = "narrator"
    /\ isDirty = FALSE
    /\ modifiedAgents = {}
    /\ pendingChanges = << >>
    /\ handler = Null
    /\ exported = Null

Range(s) == { s[i] : i \in DOMAIN s }

Min(a, b) == IF a < b THEN a ELSE b
Max(a, b) == IF a > b THEN a ELSE b

\* Array.prototype.slice(-n)
LastN(s, n) == SubSeq(s, Max(1, Len(s) - n + 1), Len(s))

\* String.prototype.slice(0, n)
FirstN(s, n) == SubSeq(s, 1, Min(Len(s), n))

\* the sequences over S of length at most n
SeqsUpTo(S, n) == UNION { [1..k -> S] : k \in 0..n }

IsSpace(tok) == tok.kind = "text" /\ tok.v \in {" ", "\n", "\t"}

RECURSIVE TrimStart(_)
TrimStart(s) ==
    IF s # << >> /\ IsSpace(Head(s)) THEN TrimStart(Tail(s)) ELSE s

RECURSIVE TrimEnd(_)
TrimEnd(s) ==
    IF s # << >> /\ IsSpace(s[Len(s)]) THEN TrimEnd(SubSeq(s, 1, Len(s) - 1)) ELSE s

\* String.prototype.trim
Trim(s) == TrimEnd(TrimStart(s))

-----------------------------------------------------------------------------
(* Record<string, V>: a function from its keys *)

EmptyMap == [k \in {} |-> << >>]

Put(m, k, v) == [x \in (DOMAIN m) \cup {k} |-> IF x = k THEN v ELSE m[x]]

Has(m, k) == k \in DOMAIN m

\* faulty variant of SetEntry: a key that is set keeps its value
SetEntryKeepsFirst(entries, k, v) ==
    IF \E i \in DOMAIN entries : entries[i].key = k THEN entries
    ELSE Append(entries, [key |-> k, value |-> v])

\* an object whose key order matters: a sequence of [key, value], keys distinct
RECURSIVE SetEntry(_, _, _)
SetEntry(entries, k, v) ==
    IF entries = << >> THEN << [key |-> k, value |-> v] >>
    ELSE IF Head(entries).key = k
         THEN << [key |-> k, value |-> v] >> \o Tail(entries)
         ELSE << Head(entries) >> \o SetEntry(Tail(entries), k, v)

-----------------------------------------------------------------------------
(* parser.ts *)

PRESET_TAGS == { "core_features", "fiction_style", "Writing_style",
                 "additional_constraints", "content_constraints",
                 "explicit_guidelines" }

CHARACTER_TAGS == { "info_settings", "char", "user" }

HISTORY_TAGS == { "Interaction_history", "chat_history" }

\* the first position >= i of a closing tag named n, 0 when there is none
RECURSIVE FindClose(_, _, _)
FindClose(content, i, n) ==
    IF i > Len(content) THEN 0
    ELSE IF content[i].kind = "close" /\ content[i].v = n THEN i
         ELSE FindClose(content, i + 1, n)

\* the first position >= i of a closing tag of any name, 0 when there is none
RECURSIVE FindAnyClose(_, _)
FindAnyClose(content, i) ==
    IF i > Len(content) THEN 0
    ELSE IF content[i].kind = "close" THEN i
         ELSE FindAnyClose(content, i + 1)

\* /<(\w+)>([\s\S]*?)<\/\1>/g, matched left to right from position i
RECURSIVE ExtractFrom(_, _, _)
ExtractFrom(content, i, tags) ==
    IF i > Len(content) THEN tags
    ELSE IF content[i].kind = "open" /\ FindClose(content, i + 1, content[i].v) > 0
         THEN LET j == FindClose(content, i + 1, content[i].v)
              IN  ExtractFrom(content, j + 1,
                     SetEntry(tags, content[i].v, Trim(SubSeq(content, i + 1, j - 1))))
         ELSE ExtractFrom(content, i + 1, tags)

extractXmlTags(content) == ExtractFrom(content, 1, << >>)

\* .replace(/<\w+>[\s\S]*?<\/\w+>/g, "")
RECURSIVE StripPairs(_, _)
StripPairs(content, i) ==
    IF i > Len(content) THEN << >>
    ELSE IF content[i].kind = "open" /\ FindAnyClose(content, i + 1) > 0
         THEN StripPairs(content, FindAnyClose(content, i + 1) + 1)
         ELSE << content[i] >> \o StripPairs(content, i + 1)

IsNotOpen(tok) == tok.kind # "open"

stripXmlTags(content) == Trim(SelectSeq(StripPairs(content, 1), IsNotOpen))

\* the classification of one message's tags (parser.ts 79-91)
RECURSIVE ClassifyTags(_, _)
ClassifyTags(tags, acc) ==
    IF tags = << >> THEN acc
    ELSE LET tagName == Head(tags).key
             tagContent == Head(tags).value
             next == IF tagName \in PRESET_TAGS
                     THEN [acc EXCEPT !.presetInstructions = Put(@, tagName, tagContent)]
                     ELSE IF tagName \in CHARACTER_TAGS
                     THEN [acc EXCEPT !.characterSettings = Put(@, tagName, tagContent)]
                     ELSE IF tagName \in HISTORY_TAGS
                     THEN [acc EXCEPT !.chatHistory =
                              Append(@, [role |-> "history", content |-> tagContent])]
                     ELSE acc
         IN  ClassifyTags(Tail(tags), next)

\* faulty variant of ParseMessages: empty dialogue is appended too
RECURSIVE ParseMessagesKeepsEmpty(_, _)
ParseMessagesKeepsEmpty(msgs, acc) ==
    IF msgs = << >> THEN acc
    ELSE LET msg == Head(msgs)
             tagged == ClassifyTags(extractXmlTags(msg.content), acc)
             cleanContent == stripXmlTags(msg.content)
             next == IF msg.role \in {"assistant", "user"}
                     THEN [tagged EXCEPT !.chatHistory =
                              Append(@, [role |-> msg.role, content |-> cleanContent])]
                     ELSE tagged
         IN  ParseMessagesKeepsEmpty(Tail(msgs), next)

\* the loop over all messages (parser.ts 71-103)
RECURSIVE ParseMessages(_, _)
ParseMessages(msgs, acc) ==
    IF msgs = << >> THEN acc
    ELSE LET msg == Head(msgs)
             tagged == ClassifyTags(extractXmlTags(msg.content), acc)
             cleanContent == stripXmlTags(msg.content)
             next == IF msg.role \in {"assistant", "user"} /\ cleanContent # << >>
                     THEN [tagged EXCEPT !.chatHistory =
                              Append(@, [role |-> msg.role, content |-> cleanContent])]
                     ELSE tagged
         IN  ParseMessages(Tail(msgs), next)

\* faulty variant of LastUserInput: the scan stops at the last user message
LastUserInputNoSkip(msgs, i, userInput) ==
    LET users == { k \in 1..i : msgs[k].role = "user" }
    IN  IF users = {} THEN userInput
        ELSE stripXmlTags(msgs[CHOOSE k \in users : \A k2 \in users : k2 <= k].content)

\* the backward scan for the current user input (parser.ts 106-111)
RECURSIVE LastUserInput(_, _, _)
LastUserInput(msgs, i, userInput) ==
    IF i < 1 THEN userInput
    ELSE IF msgs[i].role = "user"
         THEN LET stripped == stripXmlTags(msgs[i].content)
              IN  IF stripped # << >> THEN stripped
                  ELSE LastUserInput(msgs, i - 1, stripped)
         ELSE LastUserInput(msgs, i - 1, userInput)

\* getTableData() || undefined, given what the table API returned
TableDataOf(api) == IF api = "data" THEN "snapshot" ELSE "undefined"

parserNode(s, api) ==
    LET acc == ParseMessages(s.rawMessages,
                   [presetInstructions |-> EmptyMap, characterSettings |-> EmptyMap,
                    chatHistory |-> << >>])
    IN  [parsedInput |->
            [presetInstructions |-> acc.presetInstructions,
             characterSettings |-> acc.characterSettings,
             chatHistory |-> acc.chatHistory,
             userInput |-> LastUserInput(s.rawMessages, Len(s.rawMessages), << >>),
             tableData |-> TableDataOf(api)]]

-----------------------------------------------------------------------------
(* state.ts *)

Err(msg) == [message |-> msg]

\* the defaults of GraphStateAnnotation
DefaultState ==
    [rawMessages |-> << >>, parsedInput |-> Null, worldState |-> Null,
     activeCharacters |-> << >>, characterContexts |-> EmptyMap,
     personaOutputs |-> << >>, formatCheckPassed |-> FALSE, retryCount |-> 0,
     finalOutput |-> << >>, error |-> Null]

\* reducer: (x, y) => y ?? x
WorldStateReducer(x, y) == IF y = Null THEN x ELSE y

\* faulty variant of PersonaOutputsReducer: the update replaces the list
PersonaOutputsReducerReplaces(x, y) == y

\* reducer: (x, y) => [...x, ...y]
PersonaOutputsReducer(x, y) == x \o y

\* reducer: (_, y) => y
ReplaceReducer(x, y) == y

Reducer(f, x, y) ==
    CASE f = "worldState" -> WorldStateReducer(x, y)
      [] f = "personaOutputs" -> PersonaOutputsReducer(x, y)
      [] OTHER -> ReplaceReducer(x, y)

\* LangGraph merges a node's partial update: a reducer runs for each key present
ApplyUpdate(s, u) ==
    [f \in DOMAIN s |-> IF f \in DOMAIN u THEN Reducer(f, s[f], u[f]) ELSE s[f]]

-----------------------------------------------------------------------------
(* narrator.ts *)

IsWord(tok) == tok.kind = "text" /\ ~IsSpace(tok)

WordOf(tok) == IF tok.v = "name:" THEN "name" ELSE tok.v

\* the first position >= i that is not white space, 0 when there is none
RECURSIVE SkipSpace(_, _)
SkipSpace(text, i) ==
    IF i > Len(text) THEN 0
    ELSE IF IsSpace(text[i]) THEN SkipSpace(text, i + 1) ELSE i

\* charInfo.match(/name[:\s]*["']?(\w+)["']?/i): the captured word, from position i.
\* The token "name:" stands for the literal name and its colon.
RECURSIVE MatchName(_, _)
MatchName(charInfo, i) ==
    IF i > Len(charInfo) THEN << >>
    ELSE LET j == SkipSpace(charInfo, i + 1)
         IN  IF charInfo[i] = T("name:") /\ j > 0 /\ IsWord(charInfo[j])
             THEN << WordOf(charInfo[j]) >>
             ELSE MatchName(charInfo, i + 1)

\* characterSettings.char || characterSettings.info_settings || ""
CharInfo(characterSettings) ==
    IF Has(characterSettings, "char") /\ characterSettings["char"] # << >>
    THEN characterSettings["char"]
    ELSE IF Has(characterSettings, "info_settings")
         THEN characterSettings["info_settings"]
         ELSE << >>

\* the characters map as the sequence of its values, in key order
extractCharacters(characterSettings) ==
    LET charMatch == MatchName(CharInfo(characterSettings), 1)
    IN  IF charMatch # << >>
        THEN << [name |-> charMatch[1], present |-> TRUE,
                 lastPosition |-> "current scene"] >>
        ELSE << >>

\* { ...a, ...b } on characters maps: b's entries replace or extend a's
RECURSIVE SpreadCharacters(_, _)
SpreadCharacters(a, b) ==
    IF b = << >> THEN a
    ELSE LET c == Head(b)
             at == { i \in DOMAIN a : a[i].name = c.name }
         IN  SpreadCharacters(
                 IF at = {} THEN Append(a, c)
                 ELSE [i \in DOMAIN a |-> IF i \in at THEN c ELSE a[i]],
                 Tail(b))

EventLimit == 10

SummaryLength == 50

\* `user input: ${userInput.slice(0, 50)}...`
EventOf(userInput) ==
    << T("user input: ") >> \o FirstN(userInput, SummaryLength) \o << T("...") >>

\* the rule-based branch (narrator.ts 74-93)
\* faulty variant of RuleWorldState: the characters are the extracted ones alone
RuleWorldStateExtractedOnly(parsedInput, currentWorldState) ==
    LET cur == currentWorldState
        has == cur # Null
    IN  [scene |-> IF has /\ cur.scene # "" THEN cur.scene ELSE "unknown scene",
         time |-> IF has /\ cur.time # "" THEN cur.time ELSE "unknown time",
         characters |-> extractCharacters(parsedInput.characterSettings),
         recentEvents |-> LastN((IF has THEN cur.recentEvents ELSE << >>)
                                   \o << EventOf(parsedInput.userInput) >>, EventLimit)]

RuleWorldState(parsedInput, currentWorldState) ==
    LET cur == currentWorldState
        has == cur # Null
    IN  [scene |-> IF has /\ cur.scene # "" THEN cur.scene ELSE "unknown scene",
         time |-> IF has /\ cur.time # "" THEN cur.time ELSE "unknown time",
         characters |-> SpreadCharacters(IF has THEN cur.characters ELSE << >>,
                            extractCharacters(parsedInput.characterSettings)),
         recentEvents |-> LastN((IF has THEN cur.recentEvents ELSE << >>)
                                   \o << EventOf(parsedInput.userInput) >>, EventLimit)]

\* faulty variant of narratorNode: a failed update gives an empty world state
narratorNodeFabricates(s, model, r) ==
    IF s.parsedInput = Null
    THEN [error |-> Err("Parser not finished, cannot run Narrator")]
    ELSE IF ~model
    THEN [worldState |-> RuleWorldState(s.parsedInput, s.worldState)]
    ELSE IF r.kind = "text" /\ r.json = "object"
    THEN [worldState |-> r.value]
    ELSE [worldState |-> [scene |-> "unknown scene", time |-> "unknown time",
                          characters |-> << >>, recentEvents |-> << >>]]

\* A narrator model reply is [kind |-> "error"] when the call rejects, else
\* [kind |-> "text", json, value]: json is "none" when the text has no {...}
\* span, "invalid" when JSON.parse throws on the span, and "object" when the
\* span parses to value.
narratorNode(s, model, r) ==
    IF s.parsedInput = Null
    THEN [error |-> Err("Parser not finished, cannot run Narrator")]
    ELSE IF ~model
    THEN [worldState |-> RuleWorldState(s.parsedInput, s.worldState)]
    ELSE IF r.kind = "text" /\ r.json = "object"
    THEN [worldState |-> r.value]
    ELSE [worldState |-> s.worldState]

-----------------------------------------------------------------------------
(* director.ts: directorNode *)

\* Array.prototype.join, from element i on
RECURSIVE JoinFrom(_, _, _)
JoinFrom(texts, i, sep) ==
    IF i > Len(texts) THEN << >>
    ELSE IF i = Len(texts) THEN texts[i]
         ELSE texts[i] \o << sep >> \o JoinFrom(texts, i + 1, sep)

Join(texts, sep) == JoinFrom(texts, 1, sep)

\* .map((c) => c.name)
NamesOf(characters) == [i \in DOMAIN characters |-> characters[i].name]

\* Object.values(worldState.characters).filter((c) => c.present).map((c) => c.name)
PresentCharacters(worldState) ==
    NamesOf(SelectSeq(worldState.characters, LAMBDA c : c.present))

ContextEvents == 5

\* faulty variant of OtherCharacters: the filter forgets c.present
OtherCharactersIncludingAbsent(characterName, worldState) ==
    NamesOf(SelectSeq(worldState.characters, LAMBDA c : c.name # characterName))

\* .filter((c) => c.present && c.name !== characterName).map((c) => c.name)
OtherCharacters(characterName, worldState) ==
    NamesOf(SelectSeq(worldState.characters,
                      LAMBDA c : c.present /\ c.name # characterName))

OthersHeader == T("## others present: ")

\* a context is kept as its lines; lines.join("\n\n") is one to one on them
buildCharacterContext(characterName, parsedInput, worldState) ==
    LET otherCharacters == OtherCharacters(characterName, worldState)
    IN  << << T("## you are "), T(characterName) >>,
           << T("## current scene: "), T(worldState.scene) >>,
           << T("## time: "), T(worldState.time) >> >>
        \o (IF Len(otherCharacters) > 0
            THEN << << OthersHeader >>
                      \o Join([i \in DOMAIN otherCharacters |-> << T(otherCharacters[i]) >>],
                              T(", ")) >>
            ELSE << >>)
        \o (IF Len(worldState.recentEvents) > 0
            THEN << << T("## recent events:") >>,
                    Join(LastN(worldState.recentEvents, ContextEvents), T("\n")) >>
            ELSE << >>)
        \o << << T("## the user says/does:") >>, parsedInput.userInput >>

\* the loop characterContexts[charName] = buildCharacterContext(...)
ContextsFor(names, parsedInput, worldState) ==
    [n \in Range(names) |-> buildCharacterContext(n, parsedInput, worldState)]

ParseFail == [ok |-> FALSE, next |-> 0,
              val |-> [type |-> "none", v |-> "", items |-> << >>]]

\* JSON.parse on tokens: value ::= string | array; array ::= [ ] | [ value (, value)* ]
RECURSIVE ParseValue(_, _)
RECURSIVE ParseElements(_, _, _)
ParseValue(t, i) ==
    IF i > Len(t) THEN ParseFail
    ELSE IF t[i].kind = "str"
    THEN [ok |-> TRUE, next |-> i + 1,
          val |-> [type |-> "string", v |-> t[i].v, items |-> << >>]]
    ELSE IF t[i] = Punct("[")
    THEN IF i + 1 <= Len(t) /\ t[i + 1] = Punct("]")
         THEN [ok |-> TRUE, next |-> i + 2,
               val |-> [type |-> "array", v |-> "", items |-> << >>]]
         ELSE ParseElements(t, i + 1, << >>)
    ELSE ParseFail

ParseElements(t, i, acc) ==
    LET r == ParseValue(t, i)
        \* a nested array counts as one element that is not a string
        item == [type |-> r.val.type, v |-> r.val.v]
    IN  IF ~r.ok THEN ParseFail
        ELSE IF r.next <= Len(t) /\ t[r.next] = Punct(",")
        THEN ParseElements(t, r.next + 1, Append(acc, item))
        ELSE IF r.next <= Len(t) /\ t[r.next] = Punct("]")
        THEN [ok |-> TRUE, next |-> r.next + 1,
              val |-> [type |-> "array", v |-> "", items |-> Append(acc, item)]]
        ELSE ParseFail

IsNotSpace(tok) == ~IsSpace(tok)

JsonParse(text) ==
    LET t == SelectSeq(text, IsNotSpace)
        r == ParseValue(t, 1)
    IN  IF r.ok /\ r.next = Len(t) + 1 THEN r ELSE ParseFail

\* content.match(/\[[\s\S]*\]/): from the first "[" to the last "]"
ArrayMatch(content) ==
    LET opens == { i \in DOMAIN content : content[i] = Punct("[") }
        closes == { i \in DOMAIN content : content[i] = Punct("]") }
    IN  IF opens = {} \/ closes = {} THEN << >>
        ELSE LET first == CHOOSE i \in opens : \A j \in opens : i <= j
                 last == CHOOSE i \in closes : \A j \in closes : j <= i
             IN  IF first < last THEN SubSeq(content, first, last) ELSE << >>

\* activeCharacters.filter((c) => presentCharacters.includes(c))
RECURSIVE FilterPresent(_, _)
FilterPresent(items, presentCharacters) ==
    IF items = << >> THEN << >>
    ELSE (IF Head(items).type = "string" /\ Head(items).v \in Range(presentCharacters)
          THEN << Head(items).v >> ELSE << >>)
             \o FilterPresent(Tail(items), presentCharacters)

\* faulty variant of ContextsForSelected: contexts for every present character
ContextsForAllPresent(validCharacters, presentCharacters, parsedInput, worldState) ==
    IF "recentEvents" \in DOMAIN worldState
    THEN ContextsFor(presentCharacters, parsedInput, worldState)
    ELSE ContextsFor(validCharacters, parsedInput, worldState)

\* the loop over validCharacters (director.ts 99-106)
ContextsForSelected(validCharacters, presentCharacters, parsedInput, worldState) ==
    ContextsFor(validCharacters, parsedInput, worldState)

\* the characters a model reply selects (director.ts 87-110): ok is FALSE when
\* the try block is left without a return

ModelSelection(r, presentCharacters) ==
    IF r.kind # "text" THEN [ok |-> FALSE, names |-> << >>]
    ELSE LET jsonMatch == ArrayMatch(r.content)
             parsed == JsonParse(jsonMatch)
         IN  IF jsonMatch = << >> \/ ~parsed.ok
             THEN [ok |-> FALSE, names |-> << >>]
             ELSE [ok |-> TRUE,
                   names |-> FilterPresent(parsed.val.items, presentCharacters)]

\* directorNode throws a TypeError outside its try block: Object.values of an
\* undefined characters (director.ts 49), or in buildCharacterContext the
\* length of an undefined recentEvents (director.ts 158) when a context is
\* built on the no-model path or on the fall-back path, which is also where a
\* throw inside the try block leads
DirectorThrows(s, model, r) ==
    /\ s.parsedInput # Null
    /\ s.worldState # Null
    /\ \/ "characters" \notin DOMAIN s.worldState
       \/ /\ "recentEvents" \notin DOMAIN s.worldState
          /\ Len(PresentCharacters(s.worldState)) > 0
          /\ ~(/\ model
               /\ ModelSelection(r, PresentCharacters(s.worldState)).ok
               /\ ModelSelection(r, PresentCharacters(s.worldState)).names = << >>)

\* faulty variant of directorNode: with the error the selection is written too
directorNodeErrorWithSelection(s, model, r) ==
    IF s.parsedInput = Null \/ s.worldState = Null
    THEN [error |-> Err("missing state, cannot run Director"),
          activeCharacters |-> << >>, characterContexts |-> EmptyMap]
    ELSE LET presentCharacters == PresentCharacters(s.worldState)
             all == [activeCharacters |-> presentCharacters,
                     characterContexts |->
                         ContextsFor(presentCharacters, s.parsedInput, s.worldState)]
             sel == ModelSelection(r, presentCharacters)
         IN  IF Len(presentCharacters) = 0
             THEN [activeCharacters |-> << >>, characterContexts |-> EmptyMap]
             ELSE IF ~model THEN all
             ELSE IF sel.ok
             THEN [activeCharacters |-> sel.names,
                   characterContexts |->
                       ContextsForSelected(sel.names, presentCharacters,
                                           s.parsedInput, s.worldState)]
             ELSE all

\* faulty variant of directorNode: when the selection fails nobody is selected
directorNodeNoFallback(s, model, r) ==
    IF s.parsedInput = Null \/ s.worldState = Null
    THEN [error |-> Err("missing state, cannot run Director")]
    ELSE LET presentCharacters == PresentCharacters(s.worldState)
             all == [activeCharacters |-> presentCharacters,
                     characterContexts |->
                         ContextsFor(presentCharacters, s.parsedInput, s.worldState)]
             sel == ModelSelection(r, presentCharacters)
         IN  IF Len(presentCharacters) = 0
             THEN [activeCharacters |-> << >>, characterContexts |-> EmptyMap]
             ELSE IF ~model THEN all
             ELSE IF sel.ok
             THEN [activeCharacters |-> sel.names,
                   characterContexts |->
                       ContextsForSelected(sel.names, presentCharacters,
                                           s.parsedInput, s.worldState)]
             ELSE [activeCharacters |-> << >>, characterContexts |-> EmptyMap]

\* A director or composer model reply is [kind |-> "error"] when the call
\* rejects, else [kind |-> "text", content].
directorNode(s, model, r) ==
    IF s.parsedInput = Null \/ s.worldState = Null
    THEN [error |-> Err("missing state, cannot run Director")]
    ELSE LET presentCharacters == PresentCharacters(s.worldState)
             all == [activeCharacters |-> presentCharacters,
                     characterContexts |->
                         ContextsFor(presentCharacters, s.parsedInput, s.worldState)]
             sel == ModelSelection(r, presentCharacters)
         IN  IF Len(presentCharacters) = 0
             THEN [activeCharacters |-> << >>, characterContexts |-> EmptyMap]
             ELSE IF ~model THEN all
             ELSE IF sel.ok
             THEN [activeCharacters |-> sel.names,
                   characterContexts |->
                       ContextsForSelected(sel.names, presentCharacters,
                                           s.parsedInput, s.worldState)]
             ELSE all

-----------------------------------------------------------------------------
(* director.ts: directorEvaluateNode, and graph.ts: routeAfterEvaluate *)

MaxRetries == 3

\* faulty variant of ContentValid: the content is not trimmed
ContentValidNoTrim(output) == output.content # << >>

\* !(!output.content || output.content.trim().length === 0)
ContentValid(output) == Trim(output.content) # << >>

AllValid(personaOutputs) ==
    \A i \in DOMAIN personaOutputs : ContentValid(personaOutputs[i])

\* faulty variant of directorEvaluateNode: the forced pass at the bound is missing
directorEvaluateNodeNoForcedPass(s) ==
    IF AllValid(s.personaOutputs) THEN [formatCheckPassed |-> TRUE]
    ELSE [formatCheckPassed |-> FALSE,
          retryCount |-> Min(s.retryCount + 1, MaxRetries),
          personaOutputs |-> << >>]

\* faulty variant of directorEvaluateNode: the bound is tested with > instead of >=
directorEvaluateNodeOffByOne(s) ==
    IF AllValid(s.personaOutputs) THEN [formatCheckPassed |-> TRUE]
    ELSE IF s.retryCount > MaxRetries THEN [formatCheckPassed |-> TRUE]
    ELSE [formatCheckPassed |-> FALSE, retryCount |-> s.retryCount + 1,
          personaOutputs |-> << >>]

directorEvaluateNode(s) ==
    IF AllValid(s.personaOutputs) THEN [formatCheckPassed |-> TRUE]
    ELSE IF s.retryCount >= MaxRetries THEN [formatCheckPassed |-> TRUE]
    ELSE [formatCheckPassed |-> FALSE, retryCount |-> s.retryCount + 1,
          personaOutputs |-> << >>]

\* faulty variant of routeAfterEvaluate: the retry edge is never taken
routeAfterEvaluateAlwaysComposer(s) == "composer"

routeAfterEvaluate(s) == IF s.formatCheckPassed THEN "composer" ELSE "persona"

-----------------------------------------------------------------------------
(* persona.ts *)

\* How the promise of generatePersonaResponse settles.  A persona model reply
\* is [kind |-> "error"] when the call rejects, else [kind |-> "text", content];
\* a reply whose content is no string has content << >>.
\* faulty variant of generatePersonaResponse: the model call is not in a try block
generatePersonaResponseNoCatch(characterName, configured, r) ==
    IF ~configured
    THEN [status |-> "fulfilled",
          value |-> [characterName |-> characterName,
                     content |-> << T("["), T(characterName),
                                    T(" cannot reply - model not configured]") >>,
                     formatValid |-> FALSE]]
    ELSE IF r.kind = "error"
    THEN [status |-> "rejected", value |-> [characterName |-> characterName]]
    ELSE [status |-> "fulfilled",
          value |-> [characterName |-> characterName,
                     content |-> r.content,
                     formatValid |-> Len(r.content) > 0]]

\* faulty variant of generatePersonaResponse: white space is no valid content
generatePersonaResponseTrimmed(characterName, configured, r) ==
    IF ~configured
    THEN [status |-> "fulfilled",
          value |-> [characterName |-> characterName,
                     content |-> << T("["), T(characterName),
                                    T(" cannot reply - model not configured]") >>,
                     formatValid |-> FALSE]]
    ELSE IF r.kind = "error"
    THEN [status |-> "fulfilled",
          value |-> [characterName |-> characterName,
                     content |-> << T("["), T(characterName),
                                    T(" generation failed]") >>,
                     formatValid |-> FALSE]]
    ELSE [status |-> "fulfilled",
          value |-> [characterName |-> characterName,
                     content |-> r.content,
                     formatValid |-> Trim(r.content) # << >>]]

generatePersonaResponse(characterName, configured, r) ==
    IF ~configured
    THEN [status |-> "fulfilled",
          value |-> [characterName |-> characterName,
                     content |-> << T("["), T(characterName),
                                    T(" cannot reply - model not configured]") >>,
                     formatValid |-> FALSE]]
    ELSE IF r.kind = "error"
    THEN [status |-> "fulfilled",
          value |-> [characterName |-> characterName,
                     content |-> << T("["), T(characterName),
                                    T(" generation failed]") >>,
                     formatValid |-> FALSE]]
    ELSE [status |-> "fulfilled",
          value |-> [characterName |-> characterName,
                     content |-> r.content,
                     formatValid |-> Len(r.content) > 0]]

Pending(characterName) ==
    [status |-> "pending", value |-> [characterName |-> characterName]]

\* one element of activeCharacters.map(...): a character without a configured
\* model settles at once, the others wait for their model call
StartPromise(characterName, configured) ==
    IF configured THEN Pending(characterName)
    ELSE generatePersonaResponse(characterName, FALSE, [kind |-> "none"])

\* Promise.all settles when every promise is fulfilled or one is rejected
AllSettled(promises) ==
    \/ \A i \in DOMAIN promises : promises[i].status = "fulfilled"
    \/ \E i \in DOMAIN promises : promises[i].status = "rejected"

\* faulty variant of JoinOutputs: the values in the order the promises settled
JoinOutputsInSettleOrder(promises, order) ==
    [i \in DOMAIN order |-> promises[order[i]].value]

\* the value of Promise.all: the values in the order of the promises
JoinOutputs(promises, order) == [i \in DOMAIN promises |-> promises[i].value]

-----------------------------------------------------------------------------
(* composer.ts *)

Includes(content, characterName) ==
    \E i \in DOMAIN content : content[i].kind = "text" /\ content[i].v = characterName

ComposeOne(o) ==
    IF ~Includes(o.content, o.characterName)
    THEN << T("["), T(o.characterName), T("]"), T("\n") >> \o o.content
    ELSE o.content

\* faulty variant of IsKept: formatValid is not looked at
IsKeptAnyContent(o) == o.content # << >>

IsKept(o) == o.formatValid /\ o.content # << >>

simpleCompose(outputs) ==
    LET kept == SelectSeq(outputs, IsKept)
    IN  Join([i \in DOMAIN kept |-> ComposeOne(kept[i])], T("\n\n---\n\n"))

NoReplies == << T("[no character replies]") >>

\* faulty variant of composerNode: the sentinel is given only without a model
composerNodeSentinelWithoutModel(s, model, r) ==
    IF Len(s.personaOutputs) = 0 /\ ~model THEN [finalOutput |-> NoReplies]
    ELSE IF ~model THEN [finalOutput |-> simpleCompose(s.personaOutputs)]
    ELSE IF r.kind = "text" /\ r.content # << >> THEN [finalOutput |-> r.content]
    ELSE [finalOutput |-> simpleCompose(s.personaOutputs)]

\* faulty variant of composerNode: a failed or empty reply gives the sentinel
composerNodeNoFallback(s, model, r) ==
    IF Len(s.personaOutputs) = 0 THEN [finalOutput |-> NoReplies]
    ELSE IF ~model THEN [finalOutput |-> simpleCompose(s.personaOutputs)]
    ELSE IF r.kind = "text" /\ r.content # << >> THEN [finalOutput |-> r.content]
    ELSE [finalOutput |-> NoReplies]

\* faulty variant of composerNode: the check for no outputs is missing
composerNodeNoSentinel(s, model, r) ==
    IF ~model THEN [finalOutput |-> simpleCompose(s.personaOutputs)]
    ELSE IF r.kind = "text" /\ r.content # << >> THEN [finalOutput |-> r.content]
    ELSE [finalOutput |-> simpleCompose(s.personaOutputs)]

composerNode(s, model, r) ==
    IF Len(s.personaOutputs) = 0 THEN [finalOutput |-> NoReplies]
    ELSE IF ~model THEN [finalOutput |-> simpleCompose(s.personaOutputs)]
    ELSE IF r.kind = "text" /\ r.content # << >> THEN [finalOutput |-> r.content]
    ELSE [finalOutput |-> simpleCompose(s.personaOutputs)]

-----------------------------------------------------------------------------
(* config/manager.ts and config/defaults.ts: a prompt template is text with
   placeholders; the token of kind "var" is the placeholder {{v}} *)

Var(name) == [kind |-> "var", v |-> name]

\* The values of the fields of a configuration that are no text: a number (the
\* temperatures in tenths), NaN, undefined, and the null of JSON.  The text
\* fields systemPrompt and userPromptTemplate hold token sequences.
Num(n) == [type |-> "number", v |-> n]

NaN == [type |-> "NaN"]

Undefined == [type |-> "undefined"]

JsonNull == [type |-> "null"]

TextFields == {"systemPrompt", "userPromptTemplate"}

\* the default configuration (defaults.ts): the system prompts, each with its
\* placeholders, and the temperatures
DEFAULT_CONFIG ==
    [version |-> "1.0.0",
     narrator |-> [systemPrompt |->
        << T("narrator: "), Var("characterSettings"), Var("chatHistory"),
           Var("userInput"), Var("worldState") >>,
        temperature |-> Num(3)],
     director |-> [systemPrompt |->
        << T("director: "), Var("worldState"), Var("userInput"),
           Var("presentCharacters") >>,
        temperature |-> Num(2)],
     persona |-> [systemPrompt |->
        << T("persona: "), Var("characterName"), Var("fictionStyle"),
           Var("writingStyle"), Var("contentConstraints") >>,
        userPromptTemplate |-> << Var("characterContext") >>,
        temperature |-> Num(8)],
     composer |-> [systemPrompt |->
        << T("composer: "), Var("scene"), Var("time"), Var("personaOutputs") >>,
        temperature |-> Num(5)]]

\* getDefaultConfig: a deep copy of DEFAULT_CONFIG
getDefaultConfig == DEFAULT_CONFIG

AgentTypes == {"narrator", "director", "persona", "composer"}

\* { ...a, ...b }: the own keys of both, b's values where both have the key,
\* also where b's value is undefined
Spread(a, b) ==
    [k \in (DOMAIN a) \cup (DOMAIN b) |-> IF k \in DOMAIN b THEN b[k] ELSE a[k]]

\* saved[agent], nothing to spread when saved has no such key
SavedAgent(saved, agent) == IF agent \in DOMAIN saved THEN saved[agent] ELSE EmptyMap

\* saved.version || defaults.version
SavedVersion(saved) ==
    IF "version" \in DOMAIN saved /\ saved.version # ""
    THEN saved.version ELSE getDefaultConfig.version

mergeWithDefaults(saved) ==
    [k \in {"version"} \cup AgentTypes |->
        IF k = "version" THEN SavedVersion(saved)
        ELSE Spread(getDefaultConfig[k], SavedAgent(saved, k))]

\* setPrompt: this.config[agent] = { ...this.config[agent], ...config }
setPrompt(cfg, agent, changes) == [cfg EXCEPT ![agent] = Spread(cfg[agent], changes)]

\* getConfig: a shallow copy of this.config
getConfig(cfg) == cfg

setConfig(config) == mergeWithDefaults(config)

resetAgent(cfg, agent) == [cfg EXCEPT ![agent] = getDefaultConfig[agent]]

resetAll == getDefaultConfig

\* JSON.stringify of an object: a property whose value is undefined is left
\* out, NaN is written as null
Stringify(object) ==
    [k \in { k \in DOMAIN object : k \in TextFields \/ object[k] # Undefined } |->
        IF k \notin TextFields /\ object[k] = NaN THEN JsonNull ELSE object[k]]

\* A JSON text is [json |-> "object", value] with the value it denotes, or
\* [json |-> "invalid"] when it does not parse.
JsonText(value) == [json |-> "object", value |-> value]

InvalidJson == [json |-> "invalid"]

\* exportConfig: JSON.stringify(this.config, null, 2)
exportConfig(cfg) ==
    JsonText([k \in DOMAIN cfg |->
                 IF k = "version" THEN cfg[k] ELSE Stringify(cfg[k])])

\* importConfig: JSON.parse(json), then setConfig; a text that does not parse
\* throws and leaves the configuration as it is
importConfig(cfg, json) ==
    IF json.json = "object" THEN setConfig(json.value) ELSE cfg

\* the properties an object literal inherits from Object.prototype
ObjectPrototype == {"toString", "constructor", "valueOf", "hasOwnProperty"}

\* vars[varName]: an own key gives its string, an inherited name gives the
\* function of Object.prototype, any other name gives undefined
GetProperty(variables, varName) ==
    IF varName \in DOMAIN variables
    THEN [type |-> "string", v |-> variables[varName]]
    ELSE IF varName \in ObjectPrototype
    THEN [type |-> "function", v |-> << >>]
    ELSE [type |-> "undefined", v |-> << >>]

\* what String.prototype.replace makes of the value the callback returns
StringOf(value) ==
    IF value.type = "function"
    THEN << T("function () { [native code] }") >>
    ELSE value.v

\* template.replace(/\{\{(\w+)\}\}/g, ...): every placeholder once, from left
\* to right; what is put in is not looked at again
RECURSIVE replaceVariables(_, _)
replaceVariables(template, variables) ==
    IF template = << >> THEN << >>
    ELSE LET match == Head(template)
             value == GetProperty(variables, match.v)
         IN  (IF match.kind = "var" /\ value.type # "undefined"
              THEN StringOf(value)
              ELSE << match >>)
             \o replaceVariables(Tail(template), variables)

renderPrompt(cfg, agent, variables) ==
    replaceVariables(cfg[agent].systemPrompt, variables)

-----------------------------------------------------------------------------
(* The inputs of the model *)

NoReply == [kind |-> "none"]

Rejected == [kind |-> "error"]

Text(content) == [kind |-> "text", content |-> content]

\* the message lists a run is started with
RunMessages ==
    { << [role |-> "user",
          content |-> << Open("char"), T("name:"), T(" "), T("A"), Close("char"),
                         T(" "), T("hi") >>] >>,
      << [role |-> "assistant", content |-> << T("hello") >>],
         [role |-> "user", content |-> << Open("fiction_style"), T("X"),
                                          Close("fiction_style") >>] >> }

\* what window.AutoCardUpdaterAPI gives the parser
TableApiResults == { "unavailable", "data" }

Character(n, p) == [name |-> n, present |-> p, lastPosition |-> "somewhere"]

World(characters, recentEvents) ==
    [scene |-> "hall", time |-> "noon", characters |-> characters,
     recentEvents |-> recentEvents]

\* the world states a narrator model reply can carry
NarratorWorlds ==
    { World(<< >>, << >>),
      World(<< Character("A", TRUE), Character("B", FALSE) >>, << << T("e1") >> >>),
      World(<< Character("A", TRUE), Character("B", TRUE) >>, << << T("e1") >> >>) }

\* JSON objects that parse but are no WorldState: the cast at narrator.ts 112
\* checks nothing, so a reply without characters, or without recentEvents,
\* becomes the world state as it is
MisshapenWorlds ==
    { [scene |-> "hall", time |-> "noon"],
      [scene |-> "hall", time |-> "noon",
       characters |-> << Character("A", TRUE) >>] }

NarratorReplies ==
    { Rejected,
      [kind |-> "text", json |-> "none", value |-> Null],
      [kind |-> "text", json |-> "invalid", value |-> Null] }
    \cup { [kind |-> "text", json |-> "object", value |-> w] :
              w \in NarratorWorlds \cup MisshapenWorlds }

\* the replies of the director model in a run
DirectorReplies ==
    { Rejected,
      Text(<< T("t") >>),
      Text(<< Punct("["), Str("B"), Punct(","), Str("Z"), Punct("]") >>),
      Text(<< T("t"), Punct("["), Str("B"), Punct(","), Str("A"), Punct("]") >>),
      Text(<< Punct("["), Str("A"), Punct("]"), T("t"), Punct("["), Str("B"), Punct("]") >>),
      Text(<< Punct("["), Punct("]") >>) }

\* the replies of a persona model call
PersonaReplies == { Rejected, Text(<< T(" ") >>), Text(<< T("x") >>) }

ComposerReplies == { Rejected, Text(<< >>), Text(<< T("story") >>) }

\* the arguments of MultiAgentAPI.init: which agents the config names
InitConfig(agents, default) ==
    [narrator |-> "narrator" \in agents, director |-> "director" \in agents,
     persona |-> "persona" \in agents, composer |-> "composer" \in agents,
     default |-> default]

InitConfigs ==
    { InitConfig({}, TRUE),
      InitConfig({"narrator", "persona"}, FALSE),
      InitConfig({"director", "composer"}, FALSE),
      InitConfig({"persona", "composer"}, FALSE) }

-----------------------------------------------------------------------------
(* The run: index.ts, graph.ts and the nodes *)

Init ==
    /\ state = DefaultState
    /\ node = "idle"
    /\ update = EmptyMap
    /\ trace = << >>
    /\ narratorModel = FALSE
    /\ directorModel = FALSE
    /\ personaModelConfig = FALSE
    /\ composerModel = FALSE
    /\ outputPromises = << >>
    /\ settleOrder = << >>
    /\ reply = NoReply
    /\ entry = "none"
    /\ events = << >>
    /\ result = Null
    /\ promptConfig = DEFAULT_CONFIG
    /\ rendered = Null
    /\ ConfiguratorInit

\* MultiAgentAPI.init, called once before the run
MultiAgentInit(config) ==
    /\ node = "idle"
    /\ ~(narratorModel \/ directorModel \/ personaModelConfig \/ composerModel)
    /\ narratorModel' = (narratorModel \/ config.narrator \/ config.default)
    /\ directorModel' = (directorModel \/ config.director \/ config.default)
    /\ personaModelConfig' = (personaModelConfig \/ config.persona \/ config.default)
    /\ composerModel' = (composerModel \/ config.composer \/ config.default)
    /\ UNCHANGED << state, node, update, trace, outputPromises, settleOrder, reply,
                    entry, events, result,
                    promptConfig, rendered, configuratorVars >>

\* both entry points start the graph from the same initial state
Start(messages, name) ==
    /\ node = "idle"
    /\ state' = ApplyUpdate(DefaultState,
                    [rawMessages |-> messages, personaOutputs |-> << >>, retryCount |-> 0])
    /\ node' = "parser"
    /\ entry' = name
    /\ UNCHANGED << update, trace, narratorModel, directorModel, personaModelConfig,
                    composerModel, outputPromises, settleOrder, reply, events, result,
                    promptConfig, rendered, configuratorVars >>

\* runGraph: graph.invoke(initialState)
RunGraph(messages) == Start(messages, "runGraph")

\* streamGraph: graph.stream(initialState)
StreamGraph(messages) == Start(messages, "streamGraph")

NoOutput == << T("[no output]") >>

Returned(text) == [returned |-> text]

Thrown == [thrown |-> TRUE]

\* faulty variant of ReturnValue: finalOutput is returned whatever it is
ReturnValueAsIs(s) == s.finalOutput

\* runGraph: return result.finalOutput || "[no output]"
ReturnValue(s) == IF s.finalOutput = << >> THEN NoOutput ELSE s.finalOutput

\* One node ran: its partial update is merged and the edge to the next node
\* taken.  streamGraph yields the node's name with its update; runGraph returns
\* when the edge leads to END, streamGraph's generator is then done.
Step(name, u, r, next) ==
    /\ update' = u
    /\ state' = ApplyUpdate(state, u)
    /\ reply' = r
    /\ trace' = Append(trace, name)
    /\ node' = next
    /\ events' = IF entry = "streamGraph"
                 THEN Append(events, [node |-> name, state |-> u])
                 ELSE events
    /\ result' = IF next # "END" THEN result
                 ELSE IF entry = "runGraph"
                 THEN Returned(ReturnValue(ApplyUpdate(state, u)))
                 ELSE Returned(<< >>)
    /\ UNCHANGED << narratorModel, directorModel, personaModelConfig, composerModel,
                    entry, promptConfig, rendered, configuratorVars >>

\* a node threw: graph.invoke or graph.stream rejects, and the entry point
\* throws to its caller (runGraph 101-104)
Abort ==
    /\ node' = "aborted"
    /\ result' = Thrown
    /\ UNCHANGED << state, update, trace, reply, narratorModel, directorModel,
                    personaModelConfig, composerModel, entry, events,
                    promptConfig, rendered, configuratorVars >>

Parser ==
    /\ node = "parser"
    /\ \E api \in TableApiResults :
          Step("parser", parserNode(state, api), NoReply, "narrator")
    /\ UNCHANGED << outputPromises, settleOrder >>

NarratorCalls == narratorModel /\ state.parsedInput # Null

Narrator ==
    /\ node = "narrator"
    /\ \E r \in IF NarratorCalls THEN NarratorReplies ELSE { NoReply } :
          Step("narrator", narratorNode(state, narratorModel, r), r, "director")
    /\ UNCHANGED << outputPromises, settleOrder >>

DirectorCalls ==
    /\ directorModel
    /\ state.parsedInput # Null
    /\ state.worldState # Null
    /\ "characters" \in DOMAIN state.worldState
    /\ Len(PresentCharacters(state.worldState)) > 0

\* directorNode, the model's reply drawn from replies
DirectorWith(replies) ==
    /\ node = "director"
    /\ \E r \in IF DirectorCalls THEN replies ELSE { NoReply } :
          IF DirectorThrows(state, directorModel, r)
          THEN Abort
          ELSE Step("director", directorNode(state, directorModel, r), r, "persona")
    /\ UNCHANGED << outputPromises, settleOrder >>

Director == DirectorWith(DirectorReplies)

PersonaSkips == state.parsedInput = Null \/ Len(state.activeCharacters) = 0

\* personaNode returns at once (persona.ts 140-142)
PersonaEmpty ==
    /\ node = "persona"
    /\ PersonaSkips
    /\ Step("persona", [personaOutputs |-> << >>], NoReply, "evaluate")
    /\ UNCHANGED << outputPromises, settleOrder >>

\* personaNode up to its await: one promise per active character.  Each promise
\* is kept with the reply its model call got (none yet).
PersonaStart ==
    /\ node = "persona"
    /\ ~PersonaSkips
    /\ outputPromises = << >>
    /\ outputPromises' =
          [i \in DOMAIN state.activeCharacters |->
              [promise |-> StartPromise(state.activeCharacters[i], personaModelConfig),
               reply |-> NoReply]]
    /\ settleOrder' = IF personaModelConfig THEN << >>
                      ELSE [i \in DOMAIN state.activeCharacters |-> i]
    /\ UNCHANGED << state, node, update, trace, narratorModel, directorModel,
                    personaModelConfig, composerModel, reply, entry, events, result,
                    promptConfig, rendered, configuratorVars >>

\* the model call of one character returns, its reply drawn from replies
PersonaSettleWith(i, replies) ==
    /\ node = "persona"
    /\ i \in DOMAIN outputPromises
    /\ outputPromises[i].promise.status = "pending"
    /\ \E r \in replies :
          outputPromises' = [outputPromises EXCEPT
              ![i] = [promise |-> generatePersonaResponse(
                                      outputPromises[i].promise.value.characterName, TRUE, r),
                      reply |-> r]]
    /\ settleOrder' = Append(settleOrder, i)
    /\ UNCHANGED << state, node, update, trace, narratorModel, directorModel,
                    personaModelConfig, composerModel, reply, entry, events, result,
                    promptConfig, rendered, configuratorVars >>

PersonaSettle(i) == PersonaSettleWith(i, PersonaReplies)

Promises == [i \in DOMAIN outputPromises |-> outputPromises[i].promise]

\* await Promise.all(outputPromises) returns, or throws out of the run.  The
\* promises stay visible until the next node has run.
PersonaJoin ==
    /\ node = "persona"
    /\ outputPromises # << >>
    /\ AllSettled(Promises)
    /\ IF \E i \in DOMAIN Promises : Promises[i].status = "rejected"
       THEN Abort
       ELSE Step("persona",
                 [personaOutputs |-> JoinOutputs(Promises, settleOrder)],
                 NoReply, "evaluate")
    /\ UNCHANGED << outputPromises, settleOrder >>

Evaluate ==
    /\ node = "evaluate"
    /\ LET u == directorEvaluateNode(state)
       IN  Step("evaluate", u, NoReply, routeAfterEvaluate(ApplyUpdate(state, u)))
    /\ outputPromises' = << >>
    /\ settleOrder' = << >>

ComposerCalls == composerModel /\ Len(state.personaOutputs) > 0

Composer ==
    /\ node = "composer"
    /\ \E r \in IF ComposerCalls THEN ComposerReplies ELSE { NoReply } :
          Step("composer", composerNode(state, composerModel, r), r, "END")
    /\ UNCHANGED << outputPromises, settleOrder >>

Next ==
    \/ \E config \in InitConfigs : MultiAgentInit(config)
    \/ \E messages \in RunMessages : RunGraph(messages)
    \/ Parser
    \/ Narrator
    \/ Director
    \/ PersonaEmpty
    \/ PersonaStart
    \/ \E i \in DOMAIN outputPromises : PersonaSettle(i)
    \/ PersonaJoin
    \/ Evaluate
    \/ Composer

Spec == Init /\ [][Next]_vars

\* the same run started by the streaming entry point
NextStream ==
    \/ \E config \in InitConfigs : MultiAgentInit(config)
    \/ \E messages \in RunMessages : StreamGraph(messages)
    \/ Parser
    \/ Narrator
    \/ Director
    \/ PersonaEmpty
    \/ PersonaStart
    \/ \E i \in DOMAIN outputPromises : PersonaSettle(i)
    \/ PersonaJoin
    \/ Evaluate
    \/ Composer

SpecStream == Init /\ [][NextStream]_vars

-----------------------------------------------------------------------------
(* The nodes on their own: each specification below starts where a run
   enters one node, in a state the nodes before it have produced, and draws
   that node's inputs from larger sets than a whole run can afford. *)

MaxActive == 2

MaxReplyLen == 5

MaxCharacters == 3

\* JSON.stringify of an array of names
ArrayOf(names) ==
    << Punct("[") >>
        \o Join([i \in DOMAIN names |-> << Str(names[i]) >>], Punct(","))
        \o << Punct("]") >>

ObjectReply(w) == [kind |-> "text", json |-> "object", value |-> w]

\* the aggregate when the director node is entered: runGraph's initial state,
\* then parser and narrator, the narrator model replying with world state w
StateAtDirector(messages, api, w) ==
    LET s0 == ApplyUpdate(DefaultState,
                  [rawMessages |-> messages, personaOutputs |-> << >>, retryCount |-> 0])
        s1 == ApplyUpdate(s0, parserNode(s0, api))
    IN  ApplyUpdate(s1, narratorNode(s1, TRUE, ObjectReply(w)))

\* the run has reached the director node with every model configured but the
\* composer's, the persona model as given
AtDirector(s, w, director, persona) ==
    /\ state = s
    /\ node = "director"
    /\ update = [worldState |-> w]
    /\ trace = << "parser", "narrator" >>
    /\ narratorModel = TRUE
    /\ directorModel = director
    /\ personaModelConfig = persona
    /\ composerModel = FALSE
    /\ outputPromises = << >>
    /\ settleOrder = << >>
    /\ reply = ObjectReply(w)
    /\ entry = "runGraph"
    /\ events = << >>
    /\ result = Null
    /\ promptConfig = DEFAULT_CONFIG
    /\ rendered = Null
    /\ ConfiguratorInit

(* PersonaFanOut *)

FanOutWorld ==
    World(<< Character("A", TRUE), Character("B", TRUE), Character("C", TRUE) >>,
          << << T("e1") >> >>)

\* the replies of a persona model call: a rejection, the empty string (also
\* what a non-string content becomes), white space and text
FanOutReplies == { Rejected, Text(<< >>), Text(<< T(" ") >>), Text(<< T("x") >>) }

\* the persona node is entered after the director model selected the names
InitFanOut ==
    \E names \in SeqsUpTo({"A", "B", "C"}, MaxActive), messages \in RunMessages,
       persona \in BOOLEAN :
        LET s == StateAtDirector(messages, "unavailable", FanOutWorld)
            r == Text(ArrayOf(names))
            u == directorNode(s, TRUE, r)
        IN  /\ state = ApplyUpdate(s, u)
            /\ node = "persona"
            /\ update = u
            /\ trace = << "parser", "narrator", "director" >>
            /\ narratorModel = TRUE
            /\ directorModel = TRUE
            /\ personaModelConfig = persona
            /\ composerModel = FALSE
            /\ outputPromises = << >>
            /\ settleOrder = << >>
            /\ reply = r
            /\ entry = "runGraph"
            /\ events = << >>
            /\ result = Null
            /\ promptConfig = DEFAULT_CONFIG
            /\ rendered = Null
            /\ ConfiguratorInit

NextFanOut ==
    \/ PersonaEmpty
    \/ PersonaStart
    \/ \E i \in DOMAIN outputPromises : PersonaSettleWith(i, FanOutReplies)
    \/ PersonaJoin

SpecFanOut == InitFanOut /\ [][NextFanOut]_vars

(* Narrator: updates of the world state one after the other *)

UserInputs == { << T("a") >>, << T("b") >> }

\* a world state with one event more than the rule-based branch keeps
LongWorld ==
    World(<< Character("A", TRUE) >>, [i \in 1..(EventLimit + 1) |-> << T("e") >>])

NarratorUpdateReplies == NarratorReplies \cup { ObjectReply(LongWorld) }

\* the world states narratorNode is given: none, or one whose entries carry a
\* description and stand for A, the character of the settings, and for others
PriorWorlds ==
    { Null,
      World(<< [name |-> "B", present |-> TRUE, lastPosition |-> "kitchen",
                description |-> "tall"],
               [name |-> "A", present |-> FALSE, lastPosition |-> "kitchen",
                description |-> "short"],
               Character("C", FALSE) >>, << >>) }

InitNarrator ==
    \E messages \in RunMessages, prior \in PriorWorlds :
        LET s0 == ApplyUpdate(DefaultState,
                      [rawMessages |-> messages, personaOutputs |-> << >>,
                       retryCount |-> 0, worldState |-> prior])
            u == parserNode(s0, "unavailable")
        IN  /\ state = ApplyUpdate(s0, u)
            /\ node = "narrator"
            /\ update = u
            /\ trace = << "parser" >>
            /\ narratorModel = FALSE
            /\ directorModel = FALSE
            /\ personaModelConfig = FALSE
            /\ composerModel = FALSE
            /\ outputPromises = << >>
            /\ settleOrder = << >>
            /\ reply = NoReply
            /\ entry = "runGraph"
            /\ events = << >>
            /\ result = Null
            /\ promptConfig = DEFAULT_CONFIG
            /\ rendered = Null
            /\ ConfiguratorInit

\* initNarratorModel: from now on the updates are model-driven
NarratorModelInit ==
    /\ ~narratorModel
    /\ narratorModel' = TRUE
    /\ UNCHANGED << state, node, update, trace, directorModel, personaModelConfig,
                    composerModel, outputPromises, settleOrder, reply, entry, events,
                    result, promptConfig, rendered, configuratorVars >>

\* narratorNode applied to the aggregate it has left, for the next user input
NarratorUpdate(userInput) ==
    /\ node = "narrator"
    /\ \E r \in IF narratorModel THEN NarratorUpdateReplies ELSE { NoReply } :
          LET s == [state EXCEPT !.parsedInput.userInput = userInput]
              u == narratorNode(s, narratorModel, r)
          IN  /\ state' = ApplyUpdate(s, u)
              /\ update' = u
              /\ reply' = r
    /\ UNCHANGED << node, trace, narratorModel, directorModel, personaModelConfig,
                    composerModel, outputPromises, settleOrder, entry, events, result,
                    promptConfig, rendered, configuratorVars >>

NextNarrator ==
    \/ NarratorModelInit
    \/ \E userInput \in UserInputs : NarratorUpdate(userInput)

SpecNarrator == InitNarrator /\ [][NextNarrator]_vars

(* Composer, after the fan-outs of a run *)

ComposeLists == { << "A" >>, << "A", "B" >> }

\* persona replies of which some fail the gate, one names its character
ComposeReplies ==
    { Rejected, Text(<< >>), Text(<< T("hi") >>), Text(<< T("A"), T(" says") >>) }

InitComposer ==
    \E names \in ComposeLists, persona \in BOOLEAN, composer \in BOOLEAN :
        LET s == StateAtDirector(CHOOSE m \in RunMessages : Len(m) = 1,
                                 "unavailable", FanOutWorld)
            r == Text(ArrayOf(names))
            u == directorNode(s, TRUE, r)
        IN  /\ state = ApplyUpdate(s, u)
            /\ node = "persona"
            /\ update = u
            /\ trace = << "parser", "narrator", "director" >>
            /\ narratorModel = TRUE
            /\ directorModel = TRUE
            /\ personaModelConfig = persona
            /\ composerModel = composer
            /\ outputPromises = << >>
            /\ settleOrder = << >>
            /\ reply = r
            /\ entry = "runGraph"
            /\ events = << >>
            /\ result = Null
            /\ promptConfig = DEFAULT_CONFIG
            /\ rendered = Null
            /\ ConfiguratorInit

NextComposer ==
    \/ PersonaStart
    \/ \E i \in DOMAIN outputPromises : PersonaSettleWith(i, ComposeReplies)
    \/ PersonaJoin
    \/ Evaluate
    \/ Composer

SpecComposer == InitComposer /\ [][NextComposer]_vars

(* Director: the selection *)

DirectorWorlds ==
    { World(<< Character("A", TRUE), Character("B", TRUE) >>, << << T("e1") >> >>),
      World(<< Character("B", TRUE), Character("A", TRUE) >>, << >>),
      World(<< Character("A", TRUE), Character("B", FALSE) >>, << << T("e1") >> >>) }

\* what a reply of the director model is made of
DirectorTokens ==
    { Punct("["), Punct("]"), Punct(","), Str("A"), Str("B"), Str("Z"), T("t") }

DirectorTexts ==
    { Text(content) : content \in SeqsUpTo(DirectorTokens, MaxReplyLen) }
        \cup DirectorReplies

InitDirector ==
    \E w \in DirectorWorlds, director \in BOOLEAN :
        AtDirector(StateAtDirector(CHOOSE m \in RunMessages : Len(m) = 1,
                                   "unavailable", w), w, director, FALSE)

NextDirector == DirectorWith(DirectorTexts)

SpecDirector == InitDirector /\ [][NextDirector]_vars

(* Director: the contexts *)

\* an entry of WorldState.characters, description left out or not
Entry(n, p, described) ==
    IF described
    THEN [name |-> n, present |-> p, lastPosition |-> "elsewhere", description |-> "d"]
    ELSE [name |-> n, present |-> p, lastPosition |-> "somewhere"]

Entries == { Entry(n, p, d) : n \in {"A", "B"}, p \in BOOLEAN, d \in BOOLEAN }

ContextEventLists ==
    { << >>,
      [i \in 1..6 |-> << T(<< "e1", "e2", "e3", "e4", "e5", "e6" >>[i]) >>] }

ContextWorlds ==
    { World(characters, recentEvents) :
        characters \in SeqsUpTo(Entries, MaxCharacters),
        recentEvents \in ContextEventLists }

ContextReplies == { Rejected, Text(ArrayOf(<< "B", "A" >>)) }

InitContext ==
    \E w \in ContextWorlds :
        AtDirector(StateAtDirector(CHOOSE m \in RunMessages : Len(m) = 1,
                                   "unavailable", w), w, TRUE, FALSE)

NextContext == DirectorWith(ContextReplies)

SpecContext == InitContext /\ [][NextContext]_vars

-----------------------------------------------------------------------------
(* Properties of the run *)

Last(s) == s[Len(s)]

Ran(name) == trace # << >> /\ Last(trace) = name

\* a content with at least one character that is not white space
HasVisibleText(content) == \E i \in DOMAIN content : ~IsSpace(content[i])

GateHolds(personaOutputs) ==
    \A i \in DOMAIN personaOutputs : HasVisibleText(personaOutputs[i].content)

\* the promises of the fan-out that have not settled
PendingPromises ==
    { i \in DOMAIN outputPromises : outputPromises[i].promise.status = "pending" }

\* A measure of the work left in a run: the retries left, then the position of
\* the node in the graph, then the work left in the fan-out.
Rank ==
    (3 - state.retryCount) * 1000
    + (CASE node = "parser" -> 600
         [] node = "narrator" -> 500
         [] node = "director" -> 400
         [] node = "persona" ->
                200 + (IF outputPromises = << >> THEN Len(state.activeCharacters) + 1
                       ELSE Cardinality(PendingPromises))
         [] node = "evaluate" -> 100
         [] node = "composer" -> 50
         [] OTHER -> 0)

\* the guards of the actions of Next that run a node: some step is enabled
NodeCanRun ==
    \/ node \in {"parser", "narrator", "director", "evaluate", "composer"}
    \/ /\ node = "persona"
       /\ \/ PersonaSkips
          \/ outputPromises = << >>
          \/ PendingPromises # {}
          \/ AllSettled(Promises)

\* C1: every run terminates with a finalOutput.  Every step of a run lowers a
\* natural-number measure, so no run goes on for ever (no endless
\* Persona/Evaluator loop); a run that is not over can always take a step; and
\* a run is over only after Composer, with the finalOutput Composer returned.
RunTerminates ==
    /\ [][node # "idle" => Rank' < Rank]_vars
    /\ [](Rank \in Nat)
    /\ [](node \notin {"idle", "END", "aborted"} => NodeCanRun)
    /\ [](node \in {"END", "aborted"} =>
            /\ Ran("composer")
            /\ "finalOutput" \in DOMAIN update
            /\ state.finalOutput = update.finalOutput)

\* C1 witness: a run has ended although every gate failed
EndedAfterEveryGateFailed ==
    node = "END" /\ state.retryCount = 3 /\ ~GateHolds(state.personaOutputs)

\* C2: in every state of a run 0 <= retryCount <= 3, and no step lowers
\* retryCount.
RetryCountBounded ==
    /\ [](state.retryCount \in 0..3)
    /\ [][state'.retryCount >= state.retryCount]_vars

\* C2 witness: the bound is reached
RetryCountAtBound == state.retryCount = 3

\* C3: when the Evaluator signals a retry, personaOutputs is empty when the next
\* fan-out starts, and every merge of a fan-out result appends to personaOutputs.
ClearedExactlyOnRetry ==
    [][/\ (node = "evaluate" /\ node' = "persona" => state'.personaOutputs = << >>)
       /\ (node = "persona" /\ node' = "evaluate" =>
              state'.personaOutputs = state.personaOutputs \o update'.personaOutputs)]_vars

\* C4: after the Evaluator the next node is Composer iff formatCheckPassed is
\* true after its update; the fan-out is re-entered only when the gate failed
\* with retryCount < 3 before the Evaluator ran; a failed gate with retryCount at
\* 3 is forced to pass and goes to Composer; Composer never runs with
\* formatCheckPassed false.
RoutingAfterEvaluate ==
    /\ [][node = "evaluate" =>
            /\ node' \in {"composer", "persona"}
            /\ (node' = "composer" <=> state'.formatCheckPassed)
            /\ (node' = "persona" =>
                   ~GateHolds(state.personaOutputs) /\ state.retryCount < 3)
            /\ (~GateHolds(state.personaOutputs) /\ state.retryCount = 3 =>
                   state'.formatCheckPassed /\ node' = "composer")]_vars
    /\ [](node = "composer" => state.formatCheckPassed)

\* C4 witness: Composer is about to run after a forced pass
ForcedPassToComposer ==
    node = "composer" /\ state.retryCount = 3 /\ ~GateHolds(state.personaOutputs)

\* C5 as claimed: the Evaluator sets formatCheckPassed = true iff every output
\* has non-empty trimmed content, and a failed gate adds exactly 1 to retryCount.
GatePassesIffAllNonEmpty ==
    [][node = "evaluate" =>
          /\ (state'.formatCheckPassed <=> GateHolds(state.personaOutputs))
          /\ (~GateHolds(state.personaOutputs) =>
                 state'.retryCount = state.retryCount + 1)]_vars

\* C5 amended: while retryCount < 3 the Evaluator sets formatCheckPassed = true
\* iff every output has non-empty trimmed content, and a failed gate adds
\* exactly 1 to retryCount; with retryCount at 3 a failed gate sets
\* formatCheckPassed = true and leaves retryCount as it is.  A passed gate never
\* changes retryCount.
GatePassesIffAllNonEmptyBelowBound ==
    [][node = "evaluate" =>
          LET ok == GateHolds(state.personaOutputs)
          IN  /\ (state.retryCount < 3 =>
                     /\ (state'.formatCheckPassed <=> ok)
                     /\ (~ok => state'.retryCount = state.retryCount + 1))
              /\ (state.retryCount >= 3 =>
                     /\ state'.formatCheckPassed
                     /\ state'.retryCount = state.retryCount)
              /\ (ok => state'.retryCount = state.retryCount)]_vars

\* C5 witness: the gate has failed on an output that is only white space
GateFailedOnWhiteSpace ==
    /\ Ran("evaluate")
    /\ ~state.formatCheckPassed
    /\ \E i \in DOMAIN state.personaOutputs :
          /\ state.personaOutputs[i].content # << >>
          /\ ~HasVisibleText(state.personaOutputs[i].content)

\* C9: in every state of a run the keys of characterContexts are names of
\* activeCharacters.
ContextKeysAreActive ==
    DOMAIN state.characterContexts \subseteq Range(state.activeCharacters)

\* C9 witness: the Director has selected fewer characters than are present
SelectedFewerThanPresent ==
    /\ Ran("director")
    /\ state.activeCharacters # << >>
    /\ DOMAIN state.characterContexts # {}
    /\ Len(state.activeCharacters) < Len(PresentCharacters(state.worldState))

\* PersonaFanOut has returned its outputs and nothing has run since
FanOutReturned ==
    /\ node = "evaluate"
    /\ Ran("persona")
    /\ outputPromises # << >>

\* character i of the fan-out failed: no model is configured, or its call threw
Failed(i) == ~personaModelConfig \/ outputPromises[i].reply.kind = "error"

\* C6: whatever characters fail, the fan-out neither aborts nor loses an
\* output: it returns one output per active character, a failing character's
\* output is a placeholder naming it with formatValid = false, and the output
\* of a character that did not fail is made of its own reply alone.
FailureIsolated ==
    /\ node # "aborted"
    /\ FanOutReturned =>
          LET outputs == update.personaOutputs
          IN  /\ Len(outputs) = Len(state.activeCharacters)
              /\ \A i \in DOMAIN outputs :
                    /\ outputs[i].characterName = state.activeCharacters[i]
                    /\ Failed(i) =>
                          /\ ~outputs[i].formatValid
                          /\ Includes(outputs[i].content, state.activeCharacters[i])
                    /\ ~Failed(i) =>
                          /\ outputs[i].content = outputPromises[i].reply.content
                          /\ outputs[i].formatValid = (outputs[i].content # << >>)

\* one character's call threw and another's returned text
FailedBesideValid ==
    /\ FanOutReturned
    /\ \E i, j \in DOMAIN outputPromises :
          /\ outputPromises[i].reply = Rejected
          /\ ~update.personaOutputs[i].formatValid
          /\ outputPromises[j].reply = Text(<< T("x") >>)
          /\ update.personaOutputs[j].formatValid

\* C7: the persona node is left only when every task has completed, each
\* once, and whatever the order they completed in, the i-th output is the
\* value of the i-th task and carries the i-th name of activeCharacters.
JoinAll ==
    /\ [][node = "persona" /\ node' # "persona" => PendingPromises = {}]_vars
    /\ [](FanOutReturned =>
            /\ Len(update.personaOutputs) = Len(state.activeCharacters)
            /\ Len(settleOrder) = Len(state.activeCharacters)
            /\ Range(settleOrder) = DOMAIN state.activeCharacters
            /\ \A i \in DOMAIN state.activeCharacters :
                  /\ outputPromises[i].promise.status = "fulfilled"
                  /\ update.personaOutputs[i] = outputPromises[i].promise.value
                  /\ update.personaOutputs[i].characterName = state.activeCharacters[i])

\* the second task completed first, and the two outputs differ
JoinedOutOfOrder ==
    /\ FanOutReturned
    /\ Len(settleOrder) >= 2
    /\ settleOrder[1] = 2
    /\ update.personaOutputs[1] # update.personaOutputs[2]
    /\ update.personaOutputs[1].characterName = state.activeCharacters[1]

\* the director model was called and replied with text
DirectorReplied ==
    /\ node = "persona"
    /\ Ran("director")
    /\ reply.kind = "text"

StrsOf(span) ==
    LET strs == SelectSeq(span, LAMBDA tok : tok.kind = "str")
    IN  [i \in DOMAIN strs |-> strs[i].v]

\* content[i..j] is a JSON array of names
IsNameArray(content, i, j) ==
    /\ i < j
    /\ SubSeq(content, i, j) = ArrayOf(StrsOf(SubSeq(content, i, j)))

KeepPresent(names, worldState) ==
    SelectSeq(names, LAMBDA n :
        \E k \in DOMAIN worldState.characters :
            worldState.characters[k].name = n /\ worldState.characters[k].present)

\* C8: when the director model's reply contains a JSON array of names, the
\* active characters are the names of the first such array that are present,
\* in the array's order.
SelectsFirstArray ==
    DirectorReplied =>
        \A i, j \in DOMAIN reply.content :
            (/\ IsNameArray(reply.content, i, j)
             /\ \A i2 \in 1..(i - 1), j2 \in DOMAIN reply.content :
                   ~IsNameArray(reply.content, i2, j2))
            => state.activeCharacters
                   = KeepPresent(StrsOf(SubSeq(reply.content, i, j)), state.worldState)

\* C10: the context of a selected character lists, as the others present,
\* only names of present entries other than its own; and it is the context
\* the character would get from any world state that differs in nothing but
\* the entries of absent characters and the lastPosition and description of
\* entries (any such world state is a chain of the single changes below).
OthersLine(context) ==
    LET at == { k \in DOMAIN context : Head(context[k]) = OthersHeader }
    IN  IF at = {} THEN << >> ELSE Tail(context[CHOOSE k \in at : TRUE])

ListedNames(context) ==
    { OthersLine(context)[k].v : k \in { k \in DOMAIN OthersLine(context) :
                                            OthersLine(context)[k] # T(", ") } }

RemoveAt(s, k) == SubSeq(s, 1, k - 1) \o SubSeq(s, k + 1, Len(s))

InsertAt(s, k, e) == SubSeq(s, 1, k - 1) \o << e >> \o SubSeq(s, k, Len(s))

\* the world states one change away from worldState, the change being to the
\* lastPosition and description of an entry, or to replace, remove or add the
\* entry of an absent character
HiddenVariants(worldState) ==
    LET cs == worldState.characters
        With(characters) == [worldState EXCEPT !.characters = characters]
        absent == { e \in Entries : ~e.present }
    IN  { With([cs EXCEPT ![x[1]] = x[2]]) :
            x \in { y \in (DOMAIN cs) \X Entries :
                      \/ y[2].name = cs[y[1]].name /\ y[2].present = cs[y[1]].present
                      \/ ~cs[y[1]].present /\ ~y[2].present } }
        \cup { With(RemoveAt(cs, k)) : k \in { k \in DOMAIN cs : ~cs[k].present } }
        \cup { With(InsertAt(cs, x[1], x[2])) : x \in (1..(Len(cs) + 1)) \X absent }

VisibilityBoundary ==
    (node = "persona" /\ Ran("director")) =>
        \A n \in DOMAIN state.characterContexts :
            /\ ListedNames(state.characterContexts[n])
                  \subseteq { state.worldState.characters[k].name :
                                k \in { k \in DOMAIN state.worldState.characters :
                                          state.worldState.characters[k].present } }
                              \ { n }
            /\ \A w \in HiddenVariants(state.worldState) :
                  buildCharacterContext(n, state.parsedInput, w)
                      = state.characterContexts[n]

\* a context was built that lists another character while an absent one is in
\* the world state
ContextBesideAbsent ==
    /\ node = "persona"
    /\ Ran("director")
    /\ \E n \in DOMAIN state.characterContexts :
          /\ ListedNames(state.characterContexts[n]) # {}
          /\ \E k \in DOMAIN state.worldState.characters :
                ~state.worldState.characters[k].present


\* C11: without a composer model, finalOutput is made of the outputs with
\* formatValid = true and of no others, in the order of personaOutputs, each
\* as its content, behind the bracketed name tag when the content does not
\* contain the character's name, with the separator between two of them.
NameTag(characterName) == << T("["), T(characterName), T("]"), T("\n") >>

Separator == << T("\n\n---\n\n") >>

RECURSIVE Concatenation(_, _, _)
Concatenation(outputs, i, started) ==
    IF i > Len(outputs) THEN << >>
    ELSE IF ~outputs[i].formatValid THEN Concatenation(outputs, i + 1, started)
    ELSE (IF started THEN Separator ELSE << >>)
         \o (IF \E k \in DOMAIN outputs[i].content :
                    outputs[i].content[k] = T(outputs[i].characterName)
             THEN << >> ELSE NameTag(outputs[i].characterName))
         \o outputs[i].content
         \o Concatenation(outputs, i + 1, TRUE)

ComposedWithoutModel ==
    (node = "END" /\ ~composerModel /\ state.personaOutputs # << >>) =>
        state.finalOutput = Concatenation(state.personaOutputs, 1, FALSE)

\* a run without composer model has ended with an output dropped, an output
\* tagged and an output that names its character
ComposedOfTaggedAndUntagged ==
    /\ node = "END"
    /\ ~composerModel
    /\ \E i, j, k \in DOMAIN state.personaOutputs :
          /\ ~state.personaOutputs[i].formatValid
          /\ state.personaOutputs[j].formatValid
          /\ state.personaOutputs[j].content = << T("hi") >>
          /\ state.personaOutputs[k].formatValid
          /\ state.personaOutputs[k].content = << T("A"), T(" says") >>
    /\ state.finalOutput # << >>

\* the world state lists characters, none of them present
NoPresentCharacters ==
    /\ state.worldState # Null
    /\ "characters" \in DOMAIN state.worldState
    /\ PresentCharacters(state.worldState) = << >>

DirectorHasRun == \E i \in DOMAIN trace : trace[i] = "director"

RecentEventsBounded ==
    /\ []((state.worldState # Null /\ "recentEvents" \in DOMAIN state.worldState) =>
             Len(state.worldState.recentEvents) <= 10)
    /\ [][(state.worldState # Null /\ "recentEvents" \in DOMAIN state.worldState
           /\ ~narratorModel /\ node' = "narrator" /\ state' # state) =>
             LET all == state.worldState.recentEvents
                           \o << Last(state'.worldState.recentEvents) >>
             IN  state'.worldState.recentEvents
                    = SubSeq(all, IF Len(all) > 10 THEN Len(all) - 9 ELSE 1, Len(all))]_vars

-----------------------------------------------------------------------------
(* The nodes given an aggregate that lacks what an earlier node should have
   written: narratorNode without parsedInput, directorNode without
   parsedInput or without worldState (which is how a failed model-driven
   Narrator leaves a run), and the rest of the graph from there. *)

MissingStates ==
    LET s0 == ApplyUpdate(DefaultState,
                  [rawMessages |-> CHOOSE m \in RunMessages : Len(m) = 1,
                   personaOutputs |-> << >>, retryCount |-> 0])
        s1 == ApplyUpdate(s0, parserNode(s0, "unavailable"))
    IN  { [at |-> "narrator", state |-> s0],
          [at |-> "director", state |-> s0],
          [at |-> "director", state |-> s1],
          [at |-> "director", state |-> [s0 EXCEPT !.worldState = FanOutWorld]] }

InitMissing ==
    \E m \in MissingStates :
        /\ state = m.state
        /\ node = m.at
        /\ update = EmptyMap
        /\ trace = IF m.at = "narrator" THEN << "parser" >>
                   ELSE << "parser", "narrator" >>
        /\ narratorModel \in BOOLEAN
        /\ directorModel \in BOOLEAN
        /\ personaModelConfig \in BOOLEAN
        /\ composerModel \in BOOLEAN
        /\ outputPromises = << >>
        /\ settleOrder = << >>
        /\ reply = NoReply
        /\ entry = "runGraph"
        /\ events = << >>
        /\ result = Null
        /\ promptConfig = DEFAULT_CONFIG
        /\ rendered = Null
        /\ ConfiguratorInit

NextMissing ==
    \/ Narrator
    \/ Director
    \/ PersonaEmpty
    \/ Evaluate
    \/ Composer

SpecMissing == InitMissing /\ [][NextMissing]_vars

-----------------------------------------------------------------------------
(* renderPrompt alone: the narrator's template is any template of up to
   MaxTemplateLen tokens, the variables any map over RenderKeys. *)

MaxTemplateLen == 3

TemplateTokens ==
    { T("Say "), Var("userInput"), Var("scene"), Var("toString") }

RenderKeys == {"userInput", "scene"}

RenderValues == { << >>, << T("hi") >>, << Var("scene") >> }

VariableMaps == UNION { [K -> RenderValues] : K \in SUBSET RenderKeys }

\* the configuration after setPrompt('narrator', { systemPrompt })
InitRender ==
    /\ state = DefaultState
    /\ node = "idle"
    /\ update = EmptyMap
    /\ trace = << >>
    /\ narratorModel = FALSE
    /\ directorModel = FALSE
    /\ personaModelConfig = FALSE
    /\ composerModel = FALSE
    /\ outputPromises = << >>
    /\ settleOrder = << >>
    /\ reply = NoReply
    /\ entry = "none"
    /\ events = << >>
    /\ result = Null
    /\ \E template \in SeqsUpTo(TemplateTokens, MaxTemplateLen) :
          promptConfig = [DEFAULT_CONFIG EXCEPT !.narrator.systemPrompt = template]
    /\ rendered = Null
    /\ ConfiguratorInit

RenderPrompt(agent, variables) ==
    /\ rendered' = [agent |-> agent, variables |-> variables,
                    text |-> renderPrompt(promptConfig, agent, variables)]
    /\ UNCHANGED << state, node, update, trace, narratorModel, directorModel,
                    personaModelConfig, composerModel, outputPromises, settleOrder,
                    reply, entry, events, result, promptConfig, configuratorVars >>

NextRender ==
    \E agent \in AgentTypes, variables \in VariableMaps : RenderPrompt(agent, variables)

SpecRender == InitRender /\ [][NextRender]_vars

-----------------------------------------------------------------------------
(* The parser alone: one message of any content of up to MaxContentLen
   tokens, tags closed, unclosed, crossed and nested, and lists of up to
   MaxMessages messages of any role with tags of each catalog. *)

MaxContentLen == 4

ParserTokens ==
    { Open("fiction_style"), Close("fiction_style"), Open("x"), Close("x"),
      T("X"), T("Hello") }

MaxMessages == 3

MessageContents ==
    { << T("Hello") >>,
      << T(" ") >>,
      << Open("fiction_style"), T("X"), Close("fiction_style"),
         Open("chat_history"), T("Y"), Close("chat_history") >>,
      << Open("fiction_style"), T("Y"), Close("fiction_style"), T("Bye") >>,
      << Open("char"), T("X"), Close("char") >>,
      << T("Hi"), Open("chat_history"), T("X"), Close("chat_history"),
         Open("chat_history"), T("Z"), Close("chat_history") >> }

MessageLists ==
    SeqsUpTo({ [role |-> r, content |-> c] :
                  r \in {"user", "assistant", "system"}, c \in MessageContents },
             MaxMessages)

ParserMessages ==
    { << [role |-> r, content |-> c] >> :
         r \in {"user", "assistant"}, c \in SeqsUpTo(ParserTokens, MaxContentLen) }
        \cup MessageLists

NextParser ==
    \/ node = "idle" /\ \E messages \in ParserMessages : RunGraph(messages)
    \/ Parser

SpecParser == Init /\ [][NextParser]_vars

\* the run is over: the graph reached END, or a node threw
RunOver == node \in {"END", "aborted"}

\* the stages in the order of the graph, up to the n-th
StageAt(i, n) ==
    IF i = 1 THEN "parser"
    ELSE IF i = 2 THEN "narrator"
    ELSE IF i = 3 THEN "director"
    ELSE IF i % 2 = 1 THEN "evaluate"
    ELSE IF i = n /\ i >= 6 THEN "composer"
    ELSE "persona"

\* C14: the stage trace of a run is Parser, Narrator, Director, one or more
\* times (PersonaFanOut, Evaluator), then Composer: while the run goes on the
\* trace is the beginning of such a sequence and the next stage is the one
\* that follows, when the run is over the trace is the whole of it, and after
\* Composer nothing runs.
StageOrder ==
    /\ [](\A i \in DOMAIN trace :
            trace[i] = StageAt(i, IF RunOver THEN Len(trace) ELSE 0))
    /\ [](node \notin {"idle", "END", "aborted"} =>
            node = StageAt(Len(trace) + 1, IF node = "composer" THEN Len(trace) + 1 ELSE 0))
    /\ [](RunOver => Len(trace) >= 6 /\ Last(trace) = "composer")
    /\ [][node = "END" => trace' = trace]_vars

\* C15: streamGraph has yielded one event for each stage that has completed,
\* in the order they completed and with the update the stage returned, and
\* when the stream is over the last event is Composer's.
OneEventPerStage ==
    entry = "streamGraph" =>
        /\ Len(events) = Len(trace)
        /\ \A i \in DOMAIN events : events[i].node = trace[i]
        /\ events # << >> => Last(events).state = update
        /\ RunOver => events # << >> /\ Last(events).node = "composer"

\* C16: runGraph returns the finalOutput of the final state.
ReturnsFinalOutput ==
    (entry = "runGraph" /\ node = "END") => result = Returned(state.finalOutput)

\* C16 as amended: runGraph returns when the graph has reached END and not
\* before; it returns the finalOutput that Composer set when it is not the
\* empty string, and the fixed "[no output]" string when it is.
ReturnsFinalOutputUnlessEmpty ==
    entry = "runGraph" =>
        /\ node \notin {"END", "aborted"} => result = Null
        /\ node = "END" =>
              /\ Ran("composer")
              /\ state.finalOutput = update.finalOutput
              /\ state.finalOutput # << >> => result = Returned(state.finalOutput)
              /\ state.finalOutput = << >> => result = Returned(<< T("[no output]") >>)

\* runGraph has returned what the composer model wrote
ReturnedComposerReply ==
    /\ entry = "runGraph"
    /\ node = "END"
    /\ reply = Text(<< T("story") >>)
    /\ result = Returned(<< T("story") >>)

\* C17: whatever the models reply and whichever calls fail, no node throws
\* out of the run, and the run is over only when Composer has set finalOutput.
NoFailureAborts ==
    /\ node # "aborted"
    /\ result # Thrown
    /\ RunOver => Ran("composer") /\ "finalOutput" \in DOMAIN update

IsTag(tok) == tok.kind \in {"open", "close"}

NoTag(content) == \A i \in DOMAIN content : ~IsTag(content[i])

\* the message <fiction_style>X</fiction_style>Hello
TaggedHello ==
    << Open("fiction_style"), T("X"), Close("fiction_style"), T("Hello") >>

\* C18: the plain text the parser keeps of a message, as a chatHistory entry
\* of role user or assistant and as userInput, holds no opening tag and no
\* closing tag; of a message made of one tag, its body and plain text only the
\* plain text is kept; and <fiction_style>X</fiction_style>Hello gives
\* presetInstructions.fiction_style = "X" and the text "Hello".
ParserStripsMarkup ==
    (Ran("parser") /\ state.parsedInput # Null) =>
        LET parsed == state.parsedInput
            content == state.rawMessages[1].content
        IN  /\ NoTag(parsed.userInput)
            /\ \A i \in DOMAIN parsed.chatHistory :
                  parsed.chatHistory[i].role \in {"user", "assistant"} =>
                      NoTag(parsed.chatHistory[i].content)
            /\ \A n \in {"fiction_style", "x"} :
                  ( /\ Len(content) >= 3
                    /\ content[1] = Open(n)
                    /\ content[3] = Close(n)
                    /\ ~IsTag(content[2])
                    /\ NoTag(SubSeq(content, 4, Len(content))) ) =>
                        /\ state.rawMessages[1].role = "user" =>
                              parsed.userInput = SubSeq(content, 4, Len(content))
                        /\ \A i \in DOMAIN parsed.chatHistory :
                              parsed.chatHistory[i].content = SubSeq(content, 4, Len(content))
            /\ content = TaggedHello =>
                  /\ parsed.presetInstructions = Put(EmptyMap, "fiction_style", << T("X") >>)
                  /\ parsed.chatHistory =
                        << [role |-> state.rawMessages[1].role, content |-> << T("Hello") >>] >>
                  /\ state.rawMessages[1].role = "user" =>
                        parsed.userInput = << T("Hello") >>

\* the template with each placeholder that names a key of the map replaced
\* by the value of the key, and everything else as it is
RECURSIVE Substituted(_, _)
Substituted(template, variables) ==
    IF template = << >> THEN << >>
    ELSE (IF Head(template).kind = "var" /\ Head(template).v \in DOMAIN variables
          THEN variables[Head(template).v]
          ELSE << Head(template) >>)
         \o Substituted(Tail(template), variables)

\* C19: renderPrompt returns the agent's template with every placeholder whose
\* name is a key of the variable map replaced by the value of the key, and
\* every other placeholder left as it is.
RenderReplacesKeysOnly ==
    rendered # Null =>
        rendered.text =
            Substituted(promptConfig[rendered.agent].systemPrompt, rendered.variables)

\* the reply holds no array: no "[" with a "]" after it
HoldsNoArray(content) ==
    ~\E i, j \in DOMAIN content :
        i < j /\ content[i] = Punct("[") /\ content[j] = Punct("]")

\* the text from the first "[" to the last "]" is no JSON
ArrayFailsToParse(content) ==
    /\ ~HoldsNoArray(content)
    /\ ~JsonParse(ArrayMatch(content)).ok

\* the director could not select: its call failed, or its reply holds no
\* array, or the array does not parse
SelectionFailed ==
    /\ directorModel
    /\ \/ reply = Rejected
       \/ /\ reply.kind = "text"
          /\ HoldsNoArray(reply.content) \/ ArrayFailsToParse(reply.content)

\* every present character is selected, in the order of the world state,
\* and has the context built for it
AllPresentSelected ==
    LET present == KeepPresent(NamesOf(state.worldState.characters), state.worldState)
    IN  /\ state.activeCharacters = present
        /\ DOMAIN state.characterContexts = Range(present)
        /\ \A n \in Range(present) :
              state.characterContexts[n] =
                  buildCharacterContext(n, state.parsedInput, state.worldState)

\* C20: when the director model's call fails, or its reply holds no array, or
\* the array does not parse, the director selects every present character and
\* builds a context for each; without a director model it does the same and
\* calls no model.
DegradesToAllPresent ==
    (node = "persona" /\ Ran("director")) =>
        /\ SelectionFailed => AllPresentSelected
        /\ ~directorModel => AllPresentSelected /\ reply = NoReply

\* the director fell back to both present characters on an array that does
\* not parse
FellBackOnUnparsedArray ==
    /\ node = "persona"
    /\ Ran("director")
    /\ directorModel
    /\ reply = Text(<< Punct("["), T("t"), Punct("]") >>)
    /\ state.activeCharacters = << "A", "B" >>

\* C21: when Composer has run on an empty personaOutputs, finalOutput is the
\* sentinel and Composer awaited no model reply, with a composer model
\* configured or not.
SentinelOnEmptyOutputs ==
    (Ran("composer") /\ state.personaOutputs = << >>) =>
        /\ update = [finalOutput |-> << T("[no character replies]") >>]
        /\ state.finalOutput = << T("[no character replies]") >>
        /\ reply = [kind |-> "none"]

\* Composer has given the sentinel with its model configured
SentinelBesideComposerModel ==
    /\ Ran("composer")
    /\ composerModel
    /\ state.personaOutputs = << >>
    /\ state.finalOutput = NoReplies

\* C22: when Composer has called its model, a rejected call and an empty
\* reply give the deterministic concatenation of the same personaOutputs as
\* finalOutput, and any other reply is itself the finalOutput.
ComposerFallsBack ==
    (Ran("composer") /\ composerModel /\ state.personaOutputs # << >>) =>
        /\ reply \in { Rejected, Text(<< >>) } =>
              state.finalOutput = Concatenation(state.personaOutputs, 1, FALSE)
        /\ reply \notin { Rejected, Text(<< >>) } =>
              reply.kind = "text" /\ state.finalOutput = reply.content

\* the composer model's call was rejected and the concatenation of a tagged
\* output was given instead
FellBackOnRejectedCall ==
    /\ Ran("composer")
    /\ composerModel
    /\ reply = Rejected
    /\ state.finalOutput = NameTag("A") \o << T("hi") >>

\* the model-driven update failed: the call was rejected, or the reply has
\* no {...} span, or the span is no JSON
NarratorReplyFailed(r) ==
    \/ r = [kind |-> "error"]
    \/ r.kind = "text" /\ r.json \in {"none", "invalid"}

\* C23: a model-driven Narrator update whose call fails, whose reply holds no
\* JSON object or whose object does not parse returns the world state it was
\* given, and the aggregate's worldState after it is the one before it.
FailedUpdateKeepsWorldState ==
    [][(node = "narrator" /\ narratorModel /\ NarratorReplyFailed(reply')) =>
           /\ update' = [worldState |-> state.worldState]
           /\ state'.worldState = state.worldState]_vars

\* a model-driven update has failed on a world state with entries
FailedOnPriorWorld ==
    /\ node = "narrator"
    /\ narratorModel
    /\ reply = Rejected
    /\ state.worldState # Null
    /\ "characters" \in DOMAIN state.worldState
    /\ Len(state.worldState.characters) = 3

\* the characters of a world state, none when there is no world state
CharactersOf(worldState) ==
    IF worldState = Null THEN << >> ELSE worldState.characters

NamesIn(characters) == { characters[i].name : i \in DOMAIN characters }

\* the entry a rule-based update writes for an extracted name
ExtractedEntry(name) ==
    [name |-> name, present |-> TRUE, lastPosition |-> "current scene"]

\* C24: a rule-based update extracts at most one character, writes its whole
\* entry in the place of the entry of that name or as a new entry, and leaves
\* the entries of all other names as they are; a model-driven update whose
\* reply parses puts the reply's characters in the place of the whole map.
CharactersUpsertedOrReplaced ==
    [][(node = "narrator" /\ state.parsedInput # Null /\ update' # update) =>
          LET old == CharactersOf(state.worldState)
              new == state'.worldState.characters
              extracted == extractCharacters(state.parsedInput.characterSettings)
              names == NamesIn(extracted)
          IN  IF ~narratorModel
              THEN /\ Len(extracted) <= 1
                   /\ NamesIn(new) = NamesIn(old) \cup names
                   /\ Len(new) = Len(old) + Cardinality(names \ NamesIn(old))
                   /\ \A i \in DOMAIN old :
                         new[i] = IF old[i].name \in names
                                  THEN ExtractedEntry(old[i].name)
                                  ELSE old[i]
                   /\ \A i \in DOMAIN new :
                         i > Len(old) => new[i] = ExtractedEntry(new[i].name)
              ELSE (reply'.kind = "text" /\ reply'.json = "object"
                    /\ "characters" \in DOMAIN reply'.value) =>
                       new = reply'.value.characters]_vars

\* a rule-based update has replaced the entry of A, description and all, and
\* kept the entries of B and C
UpsertedBesideOthers ==
    /\ node = "narrator"
    /\ ~narratorModel
    /\ state.worldState # Null
    /\ state.worldState.characters
           = << [name |-> "B", present |-> TRUE, lastPosition |-> "kitchen",
                 description |-> "tall"],
                ExtractedEntry("A"),
                Character("C", FALSE) >>

\* C25: when a stage has completed, every field its update does not hold is
\* as before, and a field it holds has the update's value, except that
\* personaOutputs is the list before with the update appended and that a null
\* worldState leaves worldState as before.
MergedPerField ==
    [][trace' # trace =>
          /\ DOMAIN update' \subseteq DOMAIN state
          /\ DOMAIN state' = DOMAIN state
          /\ \A f \in DOMAIN state :
                state'[f] =
                    IF f \notin DOMAIN update' THEN state[f]
                    ELSE IF f = "personaOutputs" THEN state[f] \o update'[f]
                    ELSE IF f = "worldState" /\ update'[f] = [isNull |-> TRUE]
                    THEN state[f]
                    ELSE update'[f]]_vars

\* the outputs of a second fan-out have been appended to those of the first
SecondRoundAppended ==
    /\ node = "evaluate"
    /\ state.retryCount = 1
    /\ Len(state.activeCharacters) = 1
    /\ Len(state.personaOutputs) = 2
    /\ Len(update.personaOutputs) = 1

\* the node about to run lacks the state an earlier node should have written
LacksPriorState ==
    \/ node = "narrator" /\ state.parsedInput = Null
    \/ node = "director" /\ (state.parsedInput = Null \/ state.worldState = Null)

\* C26: Narrator without parsedInput and Director without parsedInput or
\* worldState return an error and nothing else, so that error is the only
\* field of the aggregate that changes; no node throws; every step is a
\* completed stage, the run is not over before the sixth, and it is over
\* only after PersonaFanOut, Evaluator and Composer, with a finalOutput.
MissingStateReported ==
    /\ [][LacksPriorState =>
             /\ DOMAIN update' = {"error"}
             /\ update'.error # Null
             /\ state' = [state EXCEPT !.error = update'.error]
             /\ node' = IF node = "narrator" THEN "director" ELSE "persona"]_vars
    /\ [](node # "aborted" /\ result # Thrown)
    /\ [][trace' = Append(trace, node)]_vars
    /\ [](node # "END" => NodeCanRun /\ Len(trace) < 6)
    /\ [](node = "END" =>
             /\ SubSeq(trace, 4, 6) = << "persona", "evaluate", "composer" >>
             /\ "finalOutput" \in DOMAIN update
             /\ state.finalOutput = update.finalOutput
             /\ state.finalOutput # << >>)

\* a run whose Director had no world state has ended with the error set and
\* a finalOutput
EndedWithErrorAndOutput ==
    /\ node = "END"
    /\ state.parsedInput # Null
    /\ state.worldState = Null
    /\ state.error # Null
    /\ state.finalOutput = NoReplies

\* the messages of role "user" whose stripped text is not empty
SpeakingUsers(msgs) ==
    { k \in DOMAIN msgs : msgs[k].role = "user" /\ stripXmlTags(msgs[k].content) # << >> }

\* C27: userInput is the stripped text of the last user message whose
\* stripped text is not empty, and the empty string when there is none.
UserInputIsLastSpeakingUser ==
    (Ran("parser") /\ state.parsedInput # Null) =>
        LET msgs == state.rawMessages
            users == SpeakingUsers(msgs)
        IN  IF users = {} THEN state.parsedInput.userInput = << >>
            ELSE \E k \in users :
                    /\ \A k2 \in users : k2 <= k
                    /\ state.parsedInput.userInput = stripXmlTags(msgs[k].content)

\* the last user message strips to nothing and an earlier one gave userInput
SkippedEmptyUserMessage ==
    /\ Ran("parser")
    /\ Len(state.rawMessages) = 3
    /\ state.rawMessages[1].role = "user"
    /\ state.rawMessages[2].role = "assistant"
    /\ state.rawMessages[3].role = "user"
    /\ stripXmlTags(state.rawMessages[3].content) = << >>
    /\ state.parsedInput.userInput = << T("Bye") >>

\* the stripped text of the user and assistant messages that have one, in
\* the order of the messages
RECURSIVE Dialogue(_)
Dialogue(msgs) ==
    IF msgs = << >> THEN << >>
    ELSE (IF Head(msgs).role \in {"user", "assistant"}
             /\ stripXmlTags(Head(msgs).content) # << >>
          THEN << [role |-> Head(msgs).role,
                   content |-> stripXmlTags(Head(msgs).content)] >>
          ELSE << >>)
         \o Dialogue(Tail(msgs))

IsDialogue(h) == h.role # "history"

CloseOf(content, i) ==
    LET js == { j \in (i + 1)..Len(content) : content[j] = Close(content[i].v) }
    IN  IF js = {} THEN 0 ELSE CHOOSE j \in js : \A j2 \in js : j <= j2

\* the tag opened at i is closed
IsPair(content, i) == content[i].kind = "open" /\ CloseOf(content, i) > 0

\* the tag opened at i is closed and lies in no closed tag that starts before
RECURSIVE IsTopLevel(_, _)
IsTopLevel(content, i) ==
    /\ IsPair(content, i)
    /\ \A k \in 1..(i - 1) : IsTopLevel(content, k) => CloseOf(content, k) < i

InnerText(content, i) == Trim(SubSeq(content, i + 1, CloseOf(content, i) - 1))

\* the later of two places << message, position >>
Later(places) ==
    CHOOSE p \in places :
        \A q \in places : q[1] < p[1] \/ (q[1] = p[1] /\ q[2] <= p[2])

\* where the tag n occurs in the messages, closed / closed and at top level
PairsOf(msgs, n) ==
    UNION { { << k, i >> : i \in { j \in DOMAIN msgs[k].content :
                                       /\ msgs[k].content[j] = Open(n)
                                       /\ IsPair(msgs[k].content, j) } } :
            k \in DOMAIN msgs }

TopLevelOf(msgs, n) ==
    { p \in PairsOf(msgs, n) : IsTopLevel(msgs[p[1]].content, p[2]) }

HistoryEntries(chatHistory) == SelectSeq(chatHistory, LAMBDA h : h.role = "history")

\* what a catalog records for the tag n, given the places it counts
RecordsLast(catalog, others, msgs, n, places) ==
    IF places = {} THEN n \notin DOMAIN catalog
    ELSE /\ n \in DOMAIN catalog
         /\ catalog[n] = InnerText(msgs[Later(places)[1]].content, Later(places)[2])
         /\ n \notin DOMAIN others

\* C28: the three catalogs share no tag name; the text of a preset tag is
\* recorded under its name in presetInstructions alone, that of a character
\* tag in characterSettings alone, that of a history tag as the one history
\* record of that tag; and of several occurrences of a tag in the messages
\* the last one is recorded.
TagsRecordedLastWins ==
    /\ PRESET_TAGS \cap CHARACTER_TAGS = {}
    /\ PRESET_TAGS \cap HISTORY_TAGS = {}
    /\ CHARACTER_TAGS \cap HISTORY_TAGS = {}
    /\ (Ran("parser") /\ state.parsedInput # Null) =>
          LET msgs == state.rawMessages
              parsed == state.parsedInput
              history == HistoryEntries(parsed.chatHistory)
              named == { n \in HISTORY_TAGS : PairsOf(msgs, n) # {} }
          IN  /\ \A n \in PRESET_TAGS :
                    RecordsLast(parsed.presetInstructions, parsed.characterSettings,
                                msgs, n, PairsOf(msgs, n))
              /\ \A n \in CHARACTER_TAGS :
                    RecordsLast(parsed.characterSettings, parsed.presetInstructions,
                                msgs, n, PairsOf(msgs, n))
              /\ Len(history) = Cardinality(named)
              /\ \A n \in named :
                    \E h \in DOMAIN history :
                       history[h].content =
                           InnerText(msgs[Later(PairsOf(msgs, n))[1]].content,
                                     Later(PairsOf(msgs, n))[2])

\* the history entries of one message: one for each history tag name at top
\* level, in the order of first occurrence, with the text of its last one
RECURSIVE HistoryOf(_, _)
HistoryOf(content, i) ==
    IF i > Len(content) THEN << >>
    ELSE LET n == content[i].v
             same == { j \in DOMAIN content :
                          content[j] = content[i] /\ IsTopLevel(content, j) }
             last == CHOOSE j \in same : \A j2 \in same : j2 <= j
         IN  (IF IsTopLevel(content, i) /\ n \in HISTORY_TAGS
                 /\ \A j \in same : i <= j
              THEN << [role |-> "history", content |-> InnerText(content, last)] >>
              ELSE << >>)
             \o HistoryOf(content, i + 1)

RECURSIVE HistoryOfAll(_)
HistoryOfAll(msgs) ==
    IF msgs = << >> THEN << >>
    ELSE HistoryOf(Head(msgs).content, 1) \o HistoryOfAll(Tail(msgs))

\* C28 as amended: the three catalogs share no tag name; only closed tags
\* that lie in no other closed tag count; of those, the text of a preset tag
\* is recorded under its name in presetInstructions alone and that of a
\* character tag in characterSettings alone, the last occurrence in the
\* messages winning; a history tag gives no record under its name but one
\* chatHistory entry of role "history" for each message it occurs in, with
\* the text of its last occurrence in that message.
TopLevelTagsRecorded ==
    /\ PRESET_TAGS \cap CHARACTER_TAGS = {}
    /\ PRESET_TAGS \cap HISTORY_TAGS = {}
    /\ CHARACTER_TAGS \cap HISTORY_TAGS = {}
    /\ (Ran("parser") /\ state.parsedInput # Null) =>
          LET msgs == state.rawMessages
              parsed == state.parsedInput
          IN  /\ DOMAIN parsed.presetInstructions \subseteq PRESET_TAGS
              /\ DOMAIN parsed.characterSettings \subseteq CHARACTER_TAGS
              /\ \A n \in PRESET_TAGS :
                    RecordsLast(parsed.presetInstructions, parsed.characterSettings,
                                msgs, n, TopLevelOf(msgs, n))
              /\ \A n \in CHARACTER_TAGS :
                    RecordsLast(parsed.characterSettings, parsed.presetInstructions,
                                msgs, n, TopLevelOf(msgs, n))
              /\ HistoryEntries(parsed.chatHistory) = HistoryOfAll(msgs)

\* the preset tag of the second message has replaced that of the first, and
\* both messages of a history tag have given an entry
LaterTagWonAndHistoryKept ==
    /\ Ran("parser")
    /\ Len(state.rawMessages) = 3
    /\ state.rawMessages[1].content
          = << Open("fiction_style"), T("X"), Close("fiction_style"),
               Open("chat_history"), T("Y"), Close("chat_history") >>
    /\ state.parsedInput.presetInstructions
          = Put(EmptyMap, "fiction_style", << T("Y") >>)
    /\ state.parsedInput.characterSettings = EmptyMap
    /\ HistoryEntries(state.parsedInput.chatHistory)
          = << [role |-> "history", content |-> << T("Y") >>],
               [role |-> "history", content |-> << T("Z") >>] >>

\* the generation of character i succeeded: a model is configured and its
\* call returned
Succeeded(i) == personaModelConfig /\ outputPromises[i].reply.kind = "text"

\* C30: an output of the fan-out has formatValid = true exactly when the
\* generation of its character succeeded and the generated content is longer
\* than 0, white space counting as content.
FormatValidIffGenerated ==
    FanOutReturned =>
        \A i \in DOMAIN update.personaOutputs :
            update.personaOutputs[i].formatValid
                <=> (Succeeded(i) /\ Len(outputPromises[i].reply.content) > 0)

\* of two outputs of one fan-out the one of white space is valid and the
\* empty one is not
WhiteSpaceValidBesideEmpty ==
    /\ FanOutReturned
    /\ \E i, j \in DOMAIN update.personaOutputs :
          /\ outputPromises[i].reply = Text(<< T(" ") >>)
          /\ update.personaOutputs[i].formatValid
          /\ outputPromises[j].reply = Text(<< >>)
          /\ ~update.personaOutputs[j].formatValid

-----------------------------------------------------------------------------
(* The retry loop seen from Composer *)

\* C31: whenever Composer starts, personaOutputs holds exactly one output per
\* entry of activeCharacters, whatever number of retries preceded it.
ComposerStartsWithOneOutputEach ==
    node = "composer" => Len(state.personaOutputs) = Len(state.activeCharacters)

\* the fan-out that has just returned is a retry and all its outputs have
\* non-empty trimmed content
RetryReturnedValid ==
    /\ node = "evaluate"
    /\ state.retryCount \in 1..MaxRetries
    /\ "personaOutputs" \in DOMAIN update
    /\ update.personaOutputs # << >>
    /\ GateHolds(update.personaOutputs)

\* C32: when the fan-out after a failed gate returns only outputs with
\* non-empty trimmed content, the following Evaluator passes the gate without
\* incrementing retryCount and the run goes to Composer.
RetryRecovers ==
    [][RetryReturnedValid =>
          /\ state'.formatCheckPassed
          /\ state'.retryCount = state.retryCount
          /\ node' = "composer"]_vars

\* C33: when the Evaluator passes the gate while retryCount < 3, every output
\* in personaOutputs has formatValid = true; a failure placeholder leads to a
\* failed gate and a retry.
PassedGateMeansFormatValid ==
    [][node = "evaluate" /\ state.retryCount < MaxRetries =>
          /\ (state'.formatCheckPassed =>
                 \A i \in DOMAIN state.personaOutputs :
                     state.personaOutputs[i].formatValid)
          /\ ((\E i \in DOMAIN state.personaOutputs :
                   ~state.personaOutputs[i].formatValid) =>
                 node' = "persona" /\ state'.retryCount = state.retryCount + 1)]_vars

\* no name occurs twice in names
NoRepeats(names) ==
    \A i, j \in DOMAIN names : names[i] = names[j] => i = j

\* C34: after the Director stage activeCharacters holds only names of
\* characters with present = true in worldState, and no name more than once.
ActiveArePresentOnce ==
    Ran("director") =>
        /\ Range(state.activeCharacters)
               \subseteq Range(PresentCharacters(state.worldState))
        /\ NoRepeats(state.activeCharacters)

-----------------------------------------------------------------------------
(* MultiAgentAPI.init called again while a run is in flight.  The models are
   module-level variables that init overwrites and that each node reads when it
   runs.  A call of init can come in while a node awaits its model: the node
   reads no model variable after that await, so the call is taken between the
   node's step and the next, or while promises of the fan-out are pending. *)

\* some node of the run awaits, or has just awaited, a model call
AwaitsModel ==
    /\ node \in {"director", "persona", "evaluate", "composer"}
    /\ reply # NoReply \/ PendingPromises # {}

MultiAgentInitInFlight(config) ==
    /\ AwaitsModel
    /\ narratorModel' = (narratorModel \/ config.narrator \/ config.default)
    /\ directorModel' = (directorModel \/ config.director \/ config.default)
    /\ personaModelConfig' = (personaModelConfig \/ config.persona \/ config.default)
    /\ composerModel' = (composerModel \/ config.composer \/ config.default)
    /\ UNCHANGED << state, node, update, trace, outputPromises, settleOrder, reply,
                    entry, events, result,
                    promptConfig, rendered, configuratorVars >>

\* a run started after init({ narrator }) alone, its narrator model has replied
InitInFlight ==
    \E w \in DirectorWorlds :
        AtDirector(StateAtDirector(CHOOSE m \in RunMessages : Len(m) = 1,
                                   "unavailable", w), w, FALSE, FALSE)

NextInFlight ==
    \/ \E config \in InitConfigs : MultiAgentInitInFlight(config)
    \/ Director
    \/ PersonaEmpty
    \/ PersonaStart
    \/ \E i \in DOMAIN outputPromises : PersonaSettle(i)
    \/ PersonaJoin
    \/ Evaluate
    \/ Composer

SpecInFlight == InitInFlight /\ [][NextInFlight]_vars

\* the generation of character i went to a persona model
AskedModel(i) ==
    outputPromises[i].promise.status = "pending" \/ outputPromises[i].reply # NoReply

\* C35: the mode of each stage is the one of the model configuration at the
\* start of the run.  The runs here start with the narrator model alone, so
\* Director and Composer call no model and no generation of a fan-out does,
\* whatever init is called while the run is in flight; and the tasks of one
\* fan-out all see the same persona configuration.
ModeFixedAtRunStart ==
    /\ Ran("director") \/ Ran("composer") => reply = NoReply
    /\ \A i \in DOMAIN outputPromises : ~AskedModel(i)
    /\ \A i, j \in DOMAIN outputPromises : AskedModel(i) <=> AskedModel(j)

-----------------------------------------------------------------------------
(* The ConfigManager alone: the calls of its API in any order, on the agents
   of ManagerAgents, with the changes of PromptChanges and the texts of
   ImportFiles. *)

ManagerAgents == {"narrator", "persona"}

PromptChanges ==
    { [systemPrompt |-> << T("p") >>],
      [temperature |-> Num(9)],
      [temperature |-> Undefined],
      [temperature |-> NaN] }

ImportFiles ==
    { InvalidJson,
      JsonText([version |-> "", narrator |-> [systemPrompt |-> << T("q") >>]]),
      JsonText([version |-> "2.0.0",
                persona |-> [systemPrompt |-> << T("q") >>,
                             temperature |-> JsonNull]]) }

ManagerUnchanged ==
    UNCHANGED << state, node, update, trace, narratorModel, directorModel,
                 personaModelConfig, composerModel, outputPromises, settleOrder,
                 reply, entry, events, result, rendered,
                 selectedAgent, isDirty, modifiedAgents, pendingChanges, handler >>

SetPrompt(agent, changes) ==
    /\ promptConfig' = setPrompt(promptConfig, agent, changes)
    /\ UNCHANGED exported
    /\ ManagerUnchanged

ResetAgent(agent) ==
    /\ promptConfig' = resetAgent(promptConfig, agent)
    /\ UNCHANGED exported
    /\ ManagerUnchanged

ResetAll ==
    /\ promptConfig' = resetAll
    /\ UNCHANGED exported
    /\ ManagerUnchanged

ExportConfig ==
    /\ exported' = [json |-> exportConfig(promptConfig), imported |-> FALSE]
    /\ UNCHANGED promptConfig
    /\ ManagerUnchanged

\* importConfig of a text from elsewhere
ImportFile(json) ==
    /\ promptConfig' = importConfig(promptConfig, json)
    /\ UNCHANGED exported
    /\ ManagerUnchanged

\* importConfig of the text exportConfig returned
ImportExported ==
    /\ exported # Null
    /\ promptConfig' = importConfig(promptConfig, exported.json)
    /\ exported' = [exported EXCEPT !.imported = TRUE]
    /\ ManagerUnchanged

NextManager ==
    \/ \E agent \in ManagerAgents, changes \in PromptChanges : SetPrompt(agent, changes)
    \/ \E agent \in ManagerAgents : ResetAgent(agent)
    \/ ResetAll
    \/ ExportConfig
    \/ \E json \in ImportFiles : ImportFile(json)
    \/ ImportExported

SpecManager == Init /\ [][NextManager]_vars

\* the step imports the text that exportConfig has just returned for the
\* configuration as it is
RoundTrip ==
    /\ exported # Null
    /\ ~exported.imported
    /\ exported.json = exportConfig(promptConfig)
    /\ exported' # Null
    /\ exported'.imported

\* C38: importConfig(exportConfig()) leaves the configuration that getConfig
\* returns unchanged, whatever the configuration, and after resetAll getConfig
\* returns the default configuration.
RoundTripKeepsConfig ==
    [][/\ (RoundTrip => getConfig(promptConfig') = getConfig(promptConfig))
       /\ (promptConfig' = resetAll => getConfig(promptConfig') = DEFAULT_CONFIG)]_vars

-----------------------------------------------------------------------------
(* The configurator (configurator/index.ts): the events of its window in any
   order.  An async handler runs up to its await in the step of the click and
   the rest when the await returns; editor changes and selections come in
   between.  One handler awaits at a time. *)

EditedAgents == {"narrator", "director"}

EditorChanges ==
    { [systemPrompt |-> << T("p") >>],
      [systemPrompt |-> << T("q") >>],
      [temperature |-> Num(9)] }

\* pendingChanges.get(agent) || {}
PendingOf(entries, agent) ==
    IF \E i \in DOMAIN entries : entries[i].key = agent
    THEN entries[CHOOSE i \in DOMAIN entries : entries[i].key = agent].value
    ELSE EmptyMap

\* pendingChanges.delete(agent)
DeleteEntry(entries, agent) == SelectSeq(entries, LAMBDA e : e.key # agent)

KeysOf(entries) == { entries[i].key : i \in DOMAIN entries }

RunUnchanged ==
    UNCHANGED << state, node, update, trace, narratorModel, directorModel,
                 personaModelConfig, composerModel, outputPromises, settleOrder,
                 reply, entry, events, result, rendered, exported >>

\* handleConfigChange of the editor, which is the editor of selectedAgent
HandleConfigChange(changes) ==
    /\ pendingChanges' =
          SetEntry(pendingChanges, selectedAgent,
                   Spread(PendingOf(pendingChanges, selectedAgent), changes))
    /\ modifiedAgents' = modifiedAgents \cup {selectedAgent}
    /\ isDirty' = TRUE
    /\ UNCHANGED << selectedAgent, handler, promptConfig >>
    /\ RunUnchanged

SelectAgent(agent) ==
    /\ agent # selectedAgent
    /\ selectedAgent' = agent
    /\ UNCHANGED << isDirty, modifiedAgents, pendingChanges, handler, promptConfig >>
    /\ RunUnchanged

\* pendingChanges.clear(); modifiedAgents.clear(); state.isDirty = false
ClearPending ==
    /\ pendingChanges' = << >>
    /\ modifiedAgents' = {}
    /\ isDirty' = FALSE

\* the loop of saveChanges at the entry of index i: the iterator of the Map is
\* live, it sees the entries as they are when it gets to them; setPrompt
\* assigns this.config[agent] before its await
SaveLoop(i) ==
    IF i <= Len(pendingChanges)
    THEN /\ promptConfig' = setPrompt(promptConfig, pendingChanges[i].key,
                                      pendingChanges[i].value)
         /\ handler' = [op |-> "save", next |-> i + 1]
         /\ UNCHANGED << pendingChanges, modifiedAgents, isDirty >>
    ELSE /\ ClearPending
         /\ handler' = Null
         /\ UNCHANGED promptConfig

SaveChanges ==
    /\ handler = Null
    /\ SaveLoop(1)
    /\ UNCHANGED selectedAgent
    /\ RunUnchanged

\* await manager.setPrompt(agent, changes) returns
SaveResumes ==
    /\ handler # Null
    /\ handler.op = "save"
    /\ SaveLoop(handler.next)
    /\ UNCHANGED selectedAgent
    /\ RunUnchanged

ResetCurrentAgent ==
    /\ handler = Null
    /\ promptConfig' = resetAgent(promptConfig, selectedAgent)
    /\ handler' = [op |-> "resetAgent", agent |-> selectedAgent]
    /\ UNCHANGED << selectedAgent, isDirty, modifiedAgents, pendingChanges >>
    /\ RunUnchanged

\* await manager.resetAgent(agent) returns
ResetResumes ==
    /\ handler # Null
    /\ handler.op = "resetAgent"
    /\ pendingChanges' = DeleteEntry(pendingChanges, handler.agent)
    /\ modifiedAgents' = modifiedAgents \ {handler.agent}
    /\ handler' = Null
    /\ UNCHANGED << selectedAgent, isDirty, promptConfig >>
    /\ RunUnchanged

ResetAllAgents ==
    /\ handler = Null
    /\ promptConfig' = resetAll
    /\ handler' = [op |-> "resetAll"]
    /\ UNCHANGED << selectedAgent, isDirty, modifiedAgents, pendingChanges >>
    /\ RunUnchanged

\* importConfig of the configurator with the file the user picked: a text
\* that does not parse throws into the catch block
ImportConfig(json) ==
    /\ handler = Null
    /\ promptConfig' = importConfig(promptConfig, json)
    /\ handler' = IF json.json = "object" THEN [op |-> "import"] ELSE Null
    /\ UNCHANGED << selectedAgent, isDirty, modifiedAgents, pendingChanges >>
    /\ RunUnchanged

\* await manager.resetAll() or await manager.importConfig(json) returns
ClearResumes ==
    /\ handler # Null
    /\ handler.op \in {"resetAll", "import"}
    /\ ClearPending
    /\ handler' = Null
    /\ UNCHANGED << selectedAgent, promptConfig >>
    /\ RunUnchanged

\* the await of the handler rejects: its catch block changes nothing
HandlerFails ==
    /\ handler # Null
    /\ handler' = Null
    /\ UNCHANGED << selectedAgent, isDirty, modifiedAgents, pendingChanges,
                    promptConfig >>
    /\ RunUnchanged

NextConfigurator ==
    \/ \E changes \in EditorChanges : HandleConfigChange(changes)
    \/ \E agent \in EditedAgents : SelectAgent(agent)
    \/ SaveChanges
    \/ SaveResumes
    \/ ResetCurrentAgent
    \/ ResetResumes
    \/ ResetAllAgents
    \/ \E json \in ImportFiles : ImportConfig(json)
    \/ ClearResumes
    \/ HandlerFails

SpecConfigurator == Init /\ [][NextConfigurator]_vars

\* C36: when no handler is awaiting, state.isDirty is true iff pendingChanges
\* is not empty, and modifiedAgents is the key set of pendingChanges.
DirtyIffPending ==
    handler = Null =>
        /\ isDirty <=> pendingChanges # << >>
        /\ modifiedAgents = KeysOf(pendingChanges)

\* the changes of an entry are what the configuration holds for its agent
Applied(cfg, e) ==
    \A k \in DOMAIN e.value :
        k \in DOMAIN cfg[e.key] /\ cfg[e.key][k] = e.value[k]

\* C37: when saveChanges finishes, every change that is pending, those that
\* arrived while it was awaiting the ConfigManager among them, is applied to
\* the ConfigManager's configuration or still in pendingChanges with
\* isDirty = true.
NoEditLostBySave ==
    [][handler # Null /\ handler.op = "save" /\ handler' = Null =>
          \A i \in DOMAIN pendingChanges :
              \/ Applied(promptConfig', pendingChanges[i])
              \/ /\ isDirty'
                 /\ \E j \in DOMAIN pendingChanges' :
                       pendingChanges'[j] = pendingChanges[i]]_vars

====
